---- MODULE Spec2Model ----
(***************************************************************************)
(* StrategyLab backtest core: the exit simulation of                       *)
(* BacktestEngine::evaluate_signals (src/src/backtest/engine.rs), the      *)
(* aggregation into a BacktestResult and BacktestResult::merge             *)
(* (src/src/backtest/result.rs).                                           *)
(*                                                                         *)
(* Numbers.  The code computes in f32.  The model computes in exact        *)
(* rationals [n, d] kept in lowest terms; prices of bars are integers      *)
(* (ticks) and the ratios of a target are hundredths.  A Vec index i of    *)
(* the code is the sequence index i + 1 here (operator At).                *)
(***************************************************************************)
EXTENDS Integers, Sequences, FiniteSets, TLC

\* ------------------------------------------------------------------ bounds
\* longest holding period (Target::in_days) a target of the model carries
MaxDays == 2
\* largest forecast_idx an evaluation is run at
MaxOffset == 2
\* most signals one call of evaluate_signals receives from the panel
MaxSignals == 2
\* most results a caller collects before it merges them
MaxResults == 3
\* most calls of Scorecard::run on one Scorecard
MaxRuns == 2

\* ------------------------------------------------------------- rationals
Abs(x) == IF x < 0 THEN -x ELSE x

RECURSIVE Gcd(_, _)
Gcd(a, b) == IF b = 0 THEN a ELSE Gcd(b, a % b)

Sgn(x) == IF x < 0 THEN -1 ELSE IF x > 0 THEN 1 ELSE 0

\* the rational n/d in lowest terms with a positive denominator; a zero
\* denominator gives what the f32 division gives: 1/0 and -1/0 are the
\* infinities and 0/0 is not-a-number
Rat(n, d) ==
    IF d = 0 THEN [n |-> Sgn(n), d |-> 0]
    ELSE LET g == Gcd(Abs(n), Abs(d))
             s == IF d < 0 THEN -1 ELSE 1
         IN  [n |-> (s * n) \div g, d |-> (s * d) \div g]

Infinity == [n |-> 1, d |-> 0]
IsNaN(a) == a.n = 0 /\ a.d = 0

Zero == [n |-> 0, d |-> 1]
One == [n |-> 1, d |-> 1]
FromInt(x) == [n |-> x, d |-> 1]
\* the common factor of two numbers that is divided out before they are
\* multiplied, so that the integers of the model stay small; 1 when both are 0
Common(x, y) == IF x = 0 /\ y = 0 THEN 1 ELSE Gcd(Abs(x), Abs(y))
\* a.n * b.d and b.n * a.d over the least common denominator
Scaled(a, b) == a.n * (b.d \div Common(a.d, b.d))
Lcd(a, b) == (a.d \div Common(a.d, b.d)) * b.d

RAdd(a, b) == Rat(Scaled(a, b) + Scaled(b, a), Lcd(a, b))
RSub(a, b) == Rat(Scaled(a, b) - Scaled(b, a), Lcd(a, b))
RMul(a, b) ==
    Rat((a.n \div Common(a.n, b.d)) * (b.n \div Common(b.n, a.d)),
        (a.d \div Common(b.n, a.d)) * (b.d \div Common(a.n, b.d)))
RNeg(a) == [n |-> -a.n, d |-> a.d]
\* 1 / b, with the sign in the numerator
RInv(b) == IF b.n < 0 THEN [n |-> -b.d, d |-> -b.n] ELSE [n |-> b.d, d |-> b.n]
RDiv(a, b) == RMul(a, RInv(b))
RLt(a, b) == Scaled(a, b) < Scaled(b, a)
RLe(a, b) == Scaled(a, b) <= Scaled(b, a)
RMax(a, b) == IF RLt(a, b) THEN b ELSE a
RMin(a, b) == IF RLt(b, a) THEN b ELSE a

RECURSIVE RSum(_)
RSum(s) == IF s = <<>> THEN Zero ELSE RAdd(Head(s), RSum(Tail(s)))

\* ------------------------------------------------------------ data model
\* exit reasons (result.rs, enum ExitReason)
TargetReached == "TargetReached"
StopLoss == "StopLoss"
StopLossFailed == "StopLossFailed"
TimeExpired == "TimeExpired"
ExitReason == {TargetReached, StopLoss, StopLossFailed, TimeExpired}

\* Option<Vec<TradeDetail>>: None, and Some(list)
NoDetails == [some |-> FALSE, list |-> <<>>]
SomeDetails(list) == [some |-> TRUE, list |-> list]

\* data[i] of the code: index 0 is the most recent bar
At(data, i) == data[i + 1]

\* the date of the bar at index i: strictly decreasing with the index
DateOf(i) == 20240131 - i

\* the day shapes a bar of the model takes against a buy price of 10 and a
\* stop price of 9: open below the stop (gap), open at the stop with the low
\* below it, open above the stop with the low at it, low above the stop
OpenLow == {<<8, 8>>, <<9, 8>>, <<10, 9>>, <<10, 10>>}
\* a close below the 10% target (return 0) and a close exactly at it
Closes == {10, 11}
Shapes == {[open |-> ol[1], low |-> ol[2], close |-> c] : ol \in OpenLow, c \in Closes}

Bar(i, shape) == [date |-> DateOf(i), open |-> shape.open, low |-> shape.low,
                  close |-> shape.close]
\* the bar of a day on which nothing happens
Quiet == [open |-> 10, low |-> 10, close |-> 10]

\* Target: the values in_days(), target_return() and stop_loss() return
TargetReturns == {Rat(10, 100)}
StopLosses == {Rat(10, 100)}
Targets == [target_return : TargetReturns, stop_loss : StopLosses, in_days : 0..MaxDays]

Offsets == 1..MaxOffset
BuyPrices == {0, 10}

\* a series of f + n bars: quiet bars before the decision day (they are never
\* read), and from index f on the n bars of `tail`
SeriesOf(f, n, tail) ==
    [k \in 1..(f + n) |-> IF k <= f THEN Bar(k - 1, Quiet) ELSE Bar(k - 1, tail[k])]

\* the tails of n bars, each bar of any shape
Tails(f, n) == [(f + 1)..(f + n) -> Shapes]

\* a signal (symbol, data, buy_price) of evaluate_signals
GridSignal(f, n, tail, buy_price) ==
    [symbol |-> "S0", data |-> SeriesOf(f, n, tail), buy_price |-> buy_price]

\* ------------------------------------------- evaluate_signals: one signal
\* the locals of one iteration of the signal loop as first assigned
InitLocals ==
    [max_return |-> FromInt(-1), exit_day |-> 0, is_win |-> FALSE,
     is_stop_loss |-> FALSE, is_stop_loss_fail |-> FALSE,
     exit_price |-> Zero, exit_reason |-> TimeExpired]

\* the two `continue` guards: no entry price, or too few bars after the offset
Excluded(sig, target, f) ==
    \/ sig.buy_price <= 0
    \/ Len(sig.data) <= f + target.in_days

\* buy_price * (1.0 - target.stop_loss())
StopLossPrice(buy_price, target) == RMul(FromInt(buy_price), RSub(One, target.stop_loss))

\* (price - buy_price) / buy_price
ReturnAt(price, buy_price) == RDiv(RSub(FromInt(price), FromInt(buy_price)), FromInt(buy_price))

\* mutant: an open exactly at the stop price counts as a gap below it
OpensBelow_OrAt(bar, stop_loss_price) == RLe(FromInt(bar.open), stop_loss_price)

\* data[i].open < stop_loss_price
OpensBelow(bar, stop_loss_price) == RLt(FromInt(bar.open), stop_loss_price)

\* mutant: a low exactly at the stop price does not touch the stop
TouchesStop_BelowOnly(bar, stop_loss_price) ==
    /\ RLt(FromInt(bar.low), stop_loss_price)
    /\ RLe(stop_loss_price, FromInt(bar.open))

\* data[i].low <= stop_loss_price && data[i].open >= stop_loss_price
TouchesStop(bar, stop_loss_price) ==
    /\ RLe(FromInt(bar.low), stop_loss_price)
    /\ RLe(stop_loss_price, FromInt(bar.open))

\* current_return >= target.target_return()
ReachesTarget(current_return, target) == RLe(target.target_return, current_return)

\* mutant: the gap-down exit booked as a clean stop at the stop price
GapExit_AsCleanStop(loc, bar, day, buy_price) ==
    [loc EXCEPT !.is_stop_loss = TRUE,
                !.max_return = ReturnAt(bar.low, buy_price),
                !.exit_day = day,
                !.exit_price = FromInt(bar.low),
                !.exit_reason = StopLoss]

\* the assignments of a gap-down exit on day `day` (first day or later day)
GapExit(loc, bar, day, buy_price) ==
    [loc EXCEPT !.is_stop_loss_fail = TRUE,
                !.max_return = ReturnAt(bar.open, buy_price),
                !.exit_day = day,
                !.exit_price = FromInt(bar.open),
                !.exit_reason = StopLossFailed]

\* the assignments of the target exit
TargetExit(loc, bar, day, buy_price) ==
    [loc EXCEPT !.max_return = ReturnAt(bar.close, buy_price),
                !.exit_day = day,
                !.exit_price = FromInt(bar.close),
                !.is_win = TRUE,
                !.exit_reason = TargetReached]

\* mutant: the clean stop keeps the running return instead of -stop_loss
StopExit_KeepsReturn(loc, day, stop_loss_price, target) ==
    [loc EXCEPT !.is_stop_loss = TRUE,
                !.exit_day = day,
                !.exit_price = stop_loss_price,
                !.exit_reason = StopLoss]

\* the assignments of the clean stop-loss exit
StopExit(loc, day, stop_loss_price, target) ==
    [loc EXCEPT !.is_stop_loss = TRUE,
                !.max_return = RNeg(target.stop_loss),
                !.exit_day = day,
                !.exit_price = stop_loss_price,
                !.exit_reason = StopLoss]

\* mutant: the two stop checks come before the target check
ScanDay_StopsFirst(loc, data, i, f, buy_price, stop_loss_price, target) ==
    LET bar == At(data, i)
        current_return == ReturnAt(bar.close, buy_price)
    IN  IF i > f + 1 /\ OpensBelow(bar, stop_loss_price)
          THEN GapExit(loc, bar, i - f, buy_price)
        ELSE IF TouchesStop(bar, stop_loss_price)
          THEN StopExit(loc, i - f, stop_loss_price, target)
        ELSE IF ReachesTarget(current_return, target)
          THEN TargetExit(loc, bar, i - f, buy_price)
        ELSE IF RLt(loc.max_return, current_return)
          THEN [loc EXCEPT !.max_return = current_return]
        ELSE loc

\* the body of `for i in (forecast_idx + 1)..=(forecast_idx + in_days)` for one
\* i; exit_day # 0 in the value is the `break`
ScanDay(loc, data, i, f, buy_price, stop_loss_price, target) ==
    LET bar == At(data, i)
        current_return == ReturnAt(bar.close, buy_price)
    IN  IF ReachesTarget(current_return, target)
          THEN TargetExit(loc, bar, i - f, buy_price)
        ELSE IF i > f + 1 /\ OpensBelow(bar, stop_loss_price)
          THEN GapExit(loc, bar, i - f, buy_price)
        ELSE IF TouchesStop(bar, stop_loss_price)
          THEN StopExit(loc, i - f, stop_loss_price, target)
        ELSE IF RLt(loc.max_return, current_return)
          THEN [loc EXCEPT !.max_return = current_return]
        ELSE loc

\* mutant: the scan does not break; the last day with an exit wins
RECURSIVE Scan_LastExit(_, _, _, _, _, _, _)
Scan_LastExit(loc, data, i, f, buy_price, stop_loss_price, target) ==
    IF i > f + target.in_days THEN loc
    ELSE Scan_LastExit(ScanDay(loc, data, i, f, buy_price, stop_loss_price, target),
                       data, i + 1, f, buy_price, stop_loss_price, target)

\* the scan loop from day i on, in increasing order, left at the first exit
RECURSIVE Scan(_, _, _, _, _, _, _)
Scan(loc, data, i, f, buy_price, stop_loss_price, target) ==
    IF i > f + target.in_days THEN loc
    ELSE LET next == ScanDay(loc, data, i, f, buy_price, stop_loss_price, target)
         IN  IF next.exit_day # 0 THEN next
             ELSE Scan(next, data, i + 1, f, buy_price, stop_loss_price, target)

\* `if target.in_days() == 1`: the re-check of the single day after the scan
OneDayRecheck(loc, data, f, buy_price, stop_loss_price, target) ==
    LET bar == At(data, f + 1)
    IN  IF target.in_days = 1 /\ RLe(FromInt(bar.low), stop_loss_price)
          THEN IF OpensBelow(bar, stop_loss_price)
                 THEN [loc EXCEPT !.is_stop_loss_fail = TRUE,
                                  !.max_return = ReturnAt(bar.open, buy_price),
                                  !.exit_price = FromInt(bar.open),
                                  !.exit_reason = StopLossFailed]
                 ELSE [loc EXCEPT !.is_stop_loss = TRUE,
                                  !.max_return = RNeg(target.stop_loss),
                                  !.exit_price = stop_loss_price,
                                  !.exit_reason = StopLoss]
          ELSE loc

\* `if exit_day == 0`: the exit at the close of the last day of the horizon
ExpireExit(loc, data, f, buy_price, stop_loss_price, target) ==
    LET last_idx == f + target.in_days
        expired == [loc EXCEPT !.max_return = ReturnAt(At(data, last_idx).close, buy_price),
                               !.exit_day = target.in_days,
                               !.exit_price = FromInt(At(data, last_idx).close),
                               !.exit_reason = TimeExpired]
    IN  OneDayRecheck(expired, data, f, buy_price, stop_loss_price, target)

\* data[forecast_idx + 1] is read before anything else: past the end of the
\* Vec the index panics
IndexPanics(sig, f) == f + 1 >= Len(sig.data)

\* the locals after the scan loop and the `if exit_day == 0` block
AfterScan(scanned, data, f, buy_price, stop_loss_price, target) ==
    IF scanned.exit_day = 0
      THEN ExpireExit(scanned, data, f, buy_price, stop_loss_price, target)
      ELSE scanned

\* the iteration from the first-day gap check on
FromFirstDay(data, f, buy_price, stop_loss_price, target) ==
    IF OpensBelow(At(data, f + 1), stop_loss_price)
      THEN GapExit(InitLocals, At(data, f + 1), 1, buy_price)
      ELSE AfterScan(Scan(InitLocals, data, f + 1, f, buy_price, stop_loss_price, target),
                     data, f, buy_price, stop_loss_price, target)

\* the simulation of one signal that passed both guards and whose first
\* read is in bounds: the locals at the end of the iteration
SimulateTrade(sig, target, f) ==
    FromFirstDay(sig.data, f, sig.buy_price, StopLossPrice(sig.buy_price, target), target)

\* ------------------------------------- evaluate_signals: the accumulators
\* the accumulators before the loop; total_trades starts at signals.len()
InitAcc(signals, collect) ==
    [total_trades |-> Len(signals), winning_trades |-> 0, losing_trades |-> 0,
     stop_loss_trades |-> 0, stop_loss_fail_trades |-> 0,
     returns |-> <<>>, hold_days |-> <<>>,
     trade_details |-> IF collect THEN SomeDetails(<<>>) ELSE NoDetails]

\* mutant: a skipped signal stays in total_trades
SkipSignal_NoDecrement(acc) == acc

\* `total_trades -= 1; continue;`
SkipSignal(acc) == [acc EXCEPT !.total_trades = @ - 1]

\* mutant: only a stopped trade is counted as a loss; a trade that runs to
\* the end of the horizon is counted nowhere
Tally_StopsOnly(acc, loc) ==
    LET counted ==
          IF loc.is_win
            THEN [acc EXCEPT !.winning_trades = @ + 1]
            ELSE [acc EXCEPT !.losing_trades =
                                 IF loc.is_stop_loss \/ loc.is_stop_loss_fail
                                   THEN @ + 1 ELSE @,
                             !.stop_loss_trades = IF loc.is_stop_loss THEN @ + 1 ELSE @,
                             !.stop_loss_fail_trades =
                                 IF loc.is_stop_loss_fail THEN @ + 1 ELSE @]
    IN  [counted EXCEPT !.returns = Append(@, loc.max_return),
                        !.hold_days = Append(@, loc.exit_day)]

\* the counters after one simulated trade, and the two pushes
Tally(acc, loc) ==
    LET counted ==
          IF loc.is_win
            THEN [acc EXCEPT !.winning_trades = @ + 1]
            ELSE [acc EXCEPT !.losing_trades = @ + 1,
                             !.stop_loss_trades = IF loc.is_stop_loss THEN @ + 1 ELSE @,
                             !.stop_loss_fail_trades =
                                 IF loc.is_stop_loss_fail THEN @ + 1 ELSE @]
    IN  [counted EXCEPT !.returns = Append(@, loc.max_return),
                        !.hold_days = Append(@, loc.exit_day)]

\* the TradeDetail of one simulated trade; a date string is modelled by the
\* date itself and "Unknown" by 0
TradeDetailOf(sig, loc, f) ==
    [symbol |-> sig.symbol,
     entry_date |-> IF Len(sig.data) > f THEN At(sig.data, f).date ELSE 0,
     entry_price |-> FromInt(sig.buy_price),
     exit_date |-> IF Len(sig.data) > f + loc.exit_day
                     THEN At(sig.data, f + loc.exit_day).date ELSE 0,
     exit_price |-> loc.exit_price,
     return_pct |-> loc.max_return,
     hold_days |-> loc.exit_day,
     exit_reason |-> loc.exit_reason]

\* mutant: the detail of a trade is put in front of the earlier ones
CollectDetail_Prepends(acc, sig, loc, f) ==
    IF acc.trade_details.some
      THEN [acc EXCEPT !.trade_details.list = <<TradeDetailOf(sig, loc, f)>> \o @]
      ELSE acc

\* `if let Some(details) = &mut trade_details { details.push(..) }`
CollectDetail(acc, sig, loc, f) ==
    IF acc.trade_details.some
      THEN [acc EXCEPT !.trade_details.list = Append(@, TradeDetailOf(sig, loc, f))]
      ELSE acc

\* mutant: the rate is taken over one trade more than were simulated
Rate_OverOneMore(count, total_trades) ==
    IF total_trades > 0 THEN Rat(count, total_trades + 1) ELSE Zero

\* a count over total_trades, 0.0 when there is no trade
Rate(count, total_trades) == IF total_trades > 0 THEN Rat(count, total_trades) ELSE Zero

\* the mean of a list, 0.0 when it is empty
Mean(list) == IF list = <<>> THEN Zero ELSE RDiv(RSum(list), FromInt(Len(list)))

\* returns.iter().fold(0.0, |max, &r| r.max(max))
RECURSIVE FoldMax(_, _)
FoldMax(init, list) ==
    IF list = <<>> THEN init ELSE FoldMax(RMax(Head(list), init), Tail(list))

\* returns.iter().fold(0.0, |min, &r| r.min(min))
RECURSIVE FoldMin(_, _)
FoldMin(init, list) ==
    IF list = <<>> THEN init ELSE FoldMin(RMin(Head(list), init), Tail(list))

\* ---------------------------------------------- calculate_advanced_metrics
\* mean / sqrt(variance): the model keeps the sign and the square of the
\* ratio, which determine it; 0.0 for no returns or no variance
SharpeRatio(returns) ==
    IF returns = <<>> THEN [sign |-> 0, square |-> Zero]
    ELSE LET mean == RDiv(RSum(returns), FromInt(Len(returns)))
             sq(r) == RMul(RSub(r, mean), RSub(r, mean))
             variance == RDiv(RSum([k \in 1..Len(returns) |-> sq(returns[k])]),
                              FromInt(Len(returns)))
         IN  IF variance = Zero THEN [sign |-> 0, square |-> Zero]
             ELSE [sign |-> Sgn(mean.n), square |-> RDiv(RMul(mean, mean), variance)]

\* f32::max: a not-a-number operand is ignored
FMax(a, b) == IF IsNaN(b) THEN a ELSE IF IsNaN(a) THEN b ELSE RMax(a, b)

\* the second loop of calculate_max_drawdown, from position k on
RECURSIVE DrawdownFrom(_, _, _, _)
DrawdownFrom(cumulative, k, peak, max_dd) ==
    IF k > Len(cumulative) THEN max_dd
    ELSE LET value == cumulative[k]
             peak2 == IF RLt(peak, value) THEN value ELSE peak
             dd == RDiv(RSub(peak2, value), peak2)
         IN  DrawdownFrom(cumulative, k + 1, peak2, FMax(max_dd, dd))

\* the first loop of calculate_max_drawdown: cum_return *= 1.0 + ret
RECURSIVE Cumulative(_, _)
Cumulative(returns, cum_return) ==
    IF returns = <<>> THEN <<>>
    ELSE LET c == RMul(cum_return, RAdd(One, Head(returns)))
         IN  <<c>> \o Cumulative(Tail(returns), c)

MaxDrawdown(returns) ==
    IF returns = <<>> THEN Zero
    ELSE LET cumulative == Cumulative(returns, One)
         IN  DrawdownFrom(cumulative, 1, cumulative[1], Zero)

\* winning * max(avg_return, 0) / (losing * max(|max_loss|, 0.001))
ProfitFactor(r) ==
    IF r.losing_trades > 0
      THEN RDiv(RMul(FromInt(r.winning_trades), RMax(r.avg_return, Zero)),
                RMul(FromInt(r.losing_trades),
                     RMax(Rat(Abs(r.max_loss.n), r.max_loss.d), Rat(1, 1000))))
      ELSE Infinity

CalculateAdvancedMetrics(r, returns) ==
    [r EXCEPT !.sharpe_ratio = SharpeRatio(returns),
              !.max_drawdown = MaxDrawdown(returns),
              !.profit_factor = ProfitFactor(r)]

\* BacktestResult::new()
NewResult ==
    [total_trades |-> 0, winning_trades |-> 0, losing_trades |-> 0,
     stop_loss_trades |-> 0, stop_loss_fail_trades |-> 0,
     win_rate |-> Zero, stop_loss_rate |-> Zero, stop_loss_fail_rate |-> Zero,
     avg_return |-> Zero, max_return |-> Zero, max_loss |-> Zero,
     avg_hold_days |-> Zero,
     sharpe_ratio |-> [sign |-> 0, square |-> Zero], max_drawdown |-> Zero,
     profit_factor |-> Zero, trade_details |-> NoDetails]

\* the statistics after the loop and the BacktestResult built from them
BuildResult(acc) ==
    CalculateAdvancedMetrics(
        [total_trades |-> acc.total_trades,
         winning_trades |-> acc.winning_trades,
         losing_trades |-> acc.losing_trades,
         stop_loss_trades |-> acc.stop_loss_trades,
         stop_loss_fail_trades |-> acc.stop_loss_fail_trades,
         win_rate |-> Rate(acc.winning_trades, acc.total_trades),
         stop_loss_rate |-> Rate(acc.stop_loss_trades, acc.total_trades),
         stop_loss_fail_rate |-> Rate(acc.stop_loss_fail_trades, acc.total_trades),
         avg_return |-> Mean(acc.returns),
         max_return |-> FoldMax(Zero, acc.returns),
         max_loss |-> FoldMin(Zero, acc.returns),
         avg_hold_days |-> Mean([k \in 1..Len(acc.hold_days) |-> FromInt(acc.hold_days[k])]),
         sharpe_ratio |-> [sign |-> 0, square |-> Zero],
         max_drawdown |-> Zero,
         profit_factor |-> Zero,
         trade_details |-> acc.trade_details],
        acc.returns)

\* ------------------------------------------ evaluate_signals: the whole call
\* what the model records of one iteration: whether the signal was skipped,
\* and the locals at the end of the iteration
SkippedTrade == [skipped |-> TRUE, loc |-> InitLocals]
SimulatedTrade(loc) == [skipped |-> FALSE, loc |-> loc]

\* `for (symbol, data, buy_price) in signals.iter()` from position k on;
\* panicked: an index past the end of a series ended the call
\* the state of the call before the loop
InitRun(signals, collect) ==
    [acc |-> InitAcc(signals, collect), trades |-> <<>>, panicked |-> FALSE]

\* an iteration left by one of the two `continue`
SkipStep(run) ==
    [run EXCEPT !.acc = SkipSignal(@), !.trades = Append(@, SkippedTrade)]

\* the end of an iteration that simulated a trade: the counters, the two
\* pushes and the trade detail
TradeStep(run, sig, loc, f) ==
    [run EXCEPT !.acc = CollectDetail(Tally(@, loc), sig, loc, f),
                !.trades = Append(@, SimulatedTrade(loc))]

RECURSIVE SignalLoop(_, _, _, _, _)
SignalLoop(signals, k, run, target, f) ==
    IF k > Len(signals) THEN run
    ELSE IF Excluded(signals[k], target, f)
      THEN SignalLoop(signals, k + 1, SkipStep(run), target, f)
    ELSE IF IndexPanics(signals[k], f)
      THEN [run EXCEPT !.panicked = TRUE]
    ELSE SignalLoop(signals, k + 1,
                    TradeStep(run, signals[k], SimulateTrade(signals[k], target, f), f),
                    target, f)

\* what the call leaves: the value it returns, when it did not panic
Outcome(run) ==
    [panicked |-> run.panicked,
     trades |-> run.trades,
     acc |-> run.acc,
     result |-> IF run.panicked THEN NewResult ELSE BuildResult(run.acc)]

\* evaluate_signals(signals, target, forecast_idx) with the engine's flag
EvaluateSignals(signals, target, f, collect) ==
    Outcome(SignalLoop(signals, 1, InitRun(signals, collect), target, f))

\* ------------------------------------------------------- the loaded panel
\* stock_data: symbol -> series, loaded once and read-only afterwards
Win == [open |-> 10, low |-> 10, close |-> 11]
Gap == [open |-> 8, low |-> 8, close |-> 10]
Touch == [open |-> 10, low |-> 9, close |-> 10]
MkSeries(shapes) == [k \in 1..Len(shapes) |-> Bar(k - 1, shapes[k])]

Fall == [open |-> 10, low |-> 8, close |-> 8]

StockData ==
    [S1 |-> MkSeries(<<Win, Quiet, Win, Quiet, Win>>),
     S2 |-> MkSeries(<<Quiet, Win, Gap, Touch, Quiet>>),
     S3 |-> MkSeries(<<Fall, Quiet, Quiet, Gap>>)]
Symbols == DOMAIN StockData

\* what selector.run and generate_signals hand to the evaluation: a ranked
\* list of at most MaxSignals distinct symbols of the panel, each with its
\* series and the buy price the entry rule computed
SignalLists ==
    UNION {{[k \in 1..n |-> [symbol |-> pick[k], data |-> StockData[pick[k]],
                             buy_price |-> price[k]]]
              : pick \in {q \in [1..n -> Symbols] :
                            \A i, j \in 1..n : i # j => q[i] # q[j]},
                price \in [1..n -> BuyPrices]} : n \in 0..MaxSignals}

\* ------------------------------------------------------------ Target::run
\* GuardTarget::new(stop_loss, in_days); its target_return() is 0.0
GuardTarget(stop_loss, in_days) ==
    [kind |-> "GuardTarget", target_return |-> Zero, stop_loss |-> stop_loss,
     in_days |-> in_days]

\* ReturnTarget { target_return, stop_loss, in_days }
ReturnTarget(target_return, stop_loss, in_days) ==
    [kind |-> "ReturnTarget", target_return |-> target_return, stop_loss |-> stop_loss,
     in_days |-> in_days]

\* the targets run_backtest is called with
BacktestTargets ==
    {GuardTarget(sl, d) : sl \in StopLosses, d \in 0..MaxDays}
      \cup {ReturnTarget(tr, sl, d) : tr \in TargetReturns, sl \in StopLosses,
                                       d \in 0..MaxDays}

\* GuardTarget::evaluate, the loop over the horizon from day i on: false at
\* the first day whose low gives a return at or below -stop_loss
RECURSIVE GuardScan(_, _, _, _, _)
GuardScan(t, data, buy_price, i, f) ==
    IF i > f + t.in_days THEN TRUE
    ELSE IF RLe(ReturnAt(At(data, i).low, buy_price), RNeg(t.stop_loss)) THEN FALSE
    ELSE GuardScan(t, data, buy_price, i + 1, f)

\* mutant: a signal without entry price or without the bars of the horizon
\* counts as a success
GuardEvaluate_InvalidSucceeds(t, data, buy_price, f) ==
    IF buy_price <= 0 THEN TRUE
    ELSE IF Len(data) <= f + t.in_days THEN TRUE
    ELSE GuardScan(t, data, buy_price, f + 1, f)

\* GuardTarget::evaluate(data, buy_price, forecast_idx)
GuardEvaluate(t, data, buy_price, f) ==
    IF buy_price <= 0 THEN FALSE
    ELSE IF Len(data) <= f + t.in_days THEN FALSE
    ELSE GuardScan(t, data, buy_price, f + 1, f)

\* Target::run, the provided method: successes over candidates.len()
DefaultRun(t, candidates, f) ==
    IF candidates = <<>> THEN Zero
    ELSE Rat(Cardinality({k \in 1..Len(candidates) :
                             GuardEvaluate(t, candidates[k].data,
                                           candidates[k].buy_price, f)}),
             Len(candidates))

\* ReturnTarget::evaluate_signals: the locals of one iteration as first assigned
ReturnInitLocals ==
    [max_return |-> FromInt(-1), exit_day |-> 0, is_win |-> FALSE, is_stop_loss |-> FALSE]

\* the two `continue` guards of ReturnTarget::evaluate_signals
ReturnSkips(t, sig, f) ==
    \/ sig.buy_price <= 0
    \/ f < t.in_days
    \/ Len(sig.data) <= f

\* the body of `for i in (forecast_idx - in_days)..forecast_idx` for one i
ReturnScanDay(loc, t, data, buy_price, i, f) ==
    IF RLt(ReturnAt(At(data, i).close, buy_price), RMul(FromInt(-2), t.stop_loss))
      THEN [loc EXCEPT !.max_return = ReturnAt(At(data, i).close, buy_price),
                       !.exit_day = i - (f - t.in_days) + 1]
    ELSE IF RLt(ReturnAt(At(data, i).close, buy_price), RNeg(t.stop_loss))
      THEN [loc EXCEPT !.is_stop_loss = TRUE,
                       !.max_return = ReturnAt(At(data, i).close, buy_price),
                       !.exit_day = i - (f - t.in_days) + 1]
    ELSE IF RLe(t.target_return, ReturnAt(At(data, i).close, buy_price))
      THEN [loc EXCEPT !.is_win = TRUE,
                       !.max_return = ReturnAt(At(data, i).close, buy_price),
                       !.exit_day = i - (f - t.in_days) + 1]
    ELSE IF RLt(loc.max_return, ReturnAt(At(data, i).close, buy_price))
      THEN [loc EXCEPT !.max_return = ReturnAt(At(data, i).close, buy_price)]
    ELSE loc

\* the loop from index i on, left at the first exit
RECURSIVE ReturnScan(_, _, _, _, _, _)
ReturnScan(loc, t, data, buy_price, i, f) ==
    IF i >= f \/ loc.exit_day # 0 THEN loc
    ELSE ReturnScan(ReturnScanDay(loc, t, data, buy_price, i, f), t, data, buy_price,
                    i + 1, f)

\* `if exit_day == 0`: the close of data[forecast_idx - 1] decides
ReturnExpire(loc, t, data, buy_price, f) ==
    IF loc.exit_day # 0 THEN loc
    ELSE [loc EXCEPT !.max_return = ReturnAt(At(data, f - 1).close, buy_price),
                     !.exit_day = t.in_days,
                     !.is_win = RLe(t.target_return,
                                    ReturnAt(At(data, f - 1).close, buy_price)),
                     !.is_stop_loss =
                         /\ ~RLe(t.target_return,
                                 ReturnAt(At(data, f - 1).close, buy_price))
                         /\ RLt(ReturnAt(At(data, f - 1).close, buy_price),
                                RNeg(t.stop_loss))
                         /\ ~RLt(ReturnAt(At(data, f - 1).close, buy_price),
                                 RMul(FromInt(-2), t.stop_loss))]

\* one iteration of ReturnTarget::evaluate_signals that is not skipped
ReturnTrade(t, sig, f) ==
    ReturnExpire(ReturnScan(ReturnInitLocals, t, sig.data, sig.buy_price,
                            f - t.in_days, f),
                 t, sig.data, sig.buy_price, f)

\* total_trades and winning_trades of ReturnTarget::evaluate_signals
ReturnCounted(t, sigs, f) == {k \in 1..Len(sigs) : ~ReturnSkips(t, sigs[k], f)}
ReturnWinning(t, sigs, f) ==
    {k \in ReturnCounted(t, sigs, f) : ReturnTrade(t, sigs[k], f).is_win}

\* ReturnTarget::run
ReturnTargetRun(t, sigs, f) ==
    IF Cardinality(ReturnCounted(t, sigs, f)) > 0
      THEN Rat(Cardinality(ReturnWinning(t, sigs, f)),
               Cardinality(ReturnCounted(t, sigs, f)))
      ELSE Zero

\* target.run(signals, forecast_idx), dispatched on the implementation
TargetRun(t, sigs, f) ==
    IF t.kind = "ReturnTarget" THEN ReturnTargetRun(t, sigs, f) ELSE DefaultRun(t, sigs, f)

\* mutant: the sum is divided by the number of offsets 0..=back_days
MeanScore_OverInclusiveRange(total_score, back_days) ==
    RDiv(total_score, FromInt(back_days + 1))

\* total_score / back_days as f32
MeanScore(total_score, back_days) == RDiv(total_score, FromInt(back_days))

\* ------------------------------------------------- BacktestResult::merge
\* mutant: the counts are assigned, not added (`=` for `+=`)
RECURSIVE MergeLoop_Overwrites(_, _, _)
MergeLoop_Overwrites(list, k, m) ==
    IF k > Len(list) THEN m
    ELSE LET r == list[k]
             n == FromInt(r.total_trades)
         IN  MergeLoop_Overwrites(list, k + 1,
                 [total_trades |-> r.total_trades,
                  winning_trades |-> r.winning_trades,
                  losing_trades |-> r.losing_trades,
                  stop_loss_trades |-> r.stop_loss_trades,
                  stop_loss_fail_trades |-> r.stop_loss_fail_trades,
                  total_return |-> RAdd(m.total_return, RMul(r.avg_return, n)),
                  max_return |-> RMax(m.max_return, r.max_return),
                  max_loss |-> RMin(m.max_loss, r.max_loss),
                  total_hold_days |-> RAdd(m.total_hold_days, RMul(r.avg_hold_days, n)),
                  all_returns |->
                      IF r.trade_details.some
                        THEN m.all_returns \o
                             [j \in 1..Len(r.trade_details.list) |->
                                  r.trade_details.list[j].return_pct]
                        ELSE m.all_returns,
                  all_trade_details |->
                      IF r.trade_details.some
                        THEN m.all_trade_details \o r.trade_details.list
                        ELSE m.all_trade_details])

\* the loop `for result in results` from position k on
RECURSIVE MergeLoop(_, _, _)
MergeLoop(list, k, m) ==
    IF k > Len(list) THEN m
    ELSE LET r == list[k]
             n == FromInt(r.total_trades)
         IN  MergeLoop(list, k + 1,
                 [total_trades |-> m.total_trades + r.total_trades,
                  winning_trades |-> m.winning_trades + r.winning_trades,
                  losing_trades |-> m.losing_trades + r.losing_trades,
                  stop_loss_trades |-> m.stop_loss_trades + r.stop_loss_trades,
                  stop_loss_fail_trades |->
                      m.stop_loss_fail_trades + r.stop_loss_fail_trades,
                  total_return |-> RAdd(m.total_return, RMul(r.avg_return, n)),
                  max_return |-> RMax(m.max_return, r.max_return),
                  max_loss |-> RMin(m.max_loss, r.max_loss),
                  total_hold_days |-> RAdd(m.total_hold_days, RMul(r.avg_hold_days, n)),
                  all_returns |->
                      IF r.trade_details.some
                        THEN m.all_returns \o
                             [j \in 1..Len(r.trade_details.list) |->
                                  r.trade_details.list[j].return_pct]
                        ELSE m.all_returns,
                  all_trade_details |->
                      IF r.trade_details.some
                        THEN m.all_trade_details \o r.trade_details.list
                        ELSE m.all_trade_details])

\* mutant: max_loss starts at -1.0 as max_return does
MergeInit_LossFromMinusOne ==
    [total_trades |-> 0, winning_trades |-> 0, losing_trades |-> 0,
     stop_loss_trades |-> 0, stop_loss_fail_trades |-> 0,
     total_return |-> Zero, max_return |-> FromInt(-1), max_loss |-> FromInt(-1),
     total_hold_days |-> Zero, all_returns |-> <<>>, all_trade_details |-> <<>>]

\* the locals of merge before the loop
MergeInit ==
    [total_trades |-> 0, winning_trades |-> 0, losing_trades |-> 0,
     stop_loss_trades |-> 0, stop_loss_fail_trades |-> 0,
     total_return |-> Zero, max_return |-> FromInt(-1), max_loss |-> Zero,
     total_hold_days |-> Zero, all_returns |-> <<>>, all_trade_details |-> <<>>]

\* all_returns after the loop: the list handed to calculate_advanced_metrics
AllReturns(list) == MergeLoop(list, 1, MergeInit).all_returns

\* the BacktestResult merge builds from its locals after the loop
MergedResult(m) ==
    LET n == m.total_trades
    IN  CalculateAdvancedMetrics(
            [total_trades |-> n,
             winning_trades |-> m.winning_trades,
             losing_trades |-> m.losing_trades,
             stop_loss_trades |-> m.stop_loss_trades,
             stop_loss_fail_trades |-> m.stop_loss_fail_trades,
             win_rate |-> IF n > 0 THEN Rat(m.winning_trades, n) ELSE Zero,
             stop_loss_rate |-> IF n > 0 THEN Rat(m.stop_loss_trades, n) ELSE Zero,
             stop_loss_fail_rate |->
                 IF n > 0 THEN Rat(m.stop_loss_fail_trades, n) ELSE Zero,
             avg_return |-> IF n > 0 THEN RDiv(m.total_return, FromInt(n)) ELSE Zero,
             max_return |-> m.max_return,
             max_loss |-> m.max_loss,
             avg_hold_days |->
                 IF n > 0 THEN RDiv(m.total_hold_days, FromInt(n)) ELSE Zero,
             sharpe_ratio |-> [sign |-> 0, square |-> Zero],
             max_drawdown |-> Zero,
             profit_factor |-> Zero,
             trade_details |-> IF m.all_trade_details = <<>> THEN NoDetails
                               ELSE SomeDetails(m.all_trade_details)],
            m.all_returns)

\* the list without the repetitions of a result
RECURSIVE Uniq(_)
Uniq(list) ==
    IF list = <<>> THEN <<>>
    ELSE <<Head(list)>> \o Uniq(SelectSeq(Tail(list), LAMBDA r : r # Head(list)))

\* mutant: a result that occurs twice in the list is merged once
Merge_Idempotent(list) ==
    IF list = <<>> THEN NewResult ELSE MergedResult(MergeLoop(Uniq(list), 1, MergeInit))

\* BacktestResult::merge(results)
Merge(list) ==
    IF list = <<>> THEN NewResult ELSE MergedResult(MergeLoop(list, 1, MergeInit))

\* ------------------------------------------------------------------ state
VARIABLES
    collect_trade_details,  \* BacktestEngine.collect_trade_details
    signals,                \* the signals of the last evaluate_signals call
    target,                 \* its target
    forecast_idx,           \* its forecast_idx
    trades,                 \* per signal of that call: skipped, or its locals
    acc,                    \* the accumulators of that call after its loop
    result,                 \* the BacktestResult it returned
    pc,                     \* "idle", "returned", "merged" or "backtested" (the
                            \* caller holds a value), "backtest" (run_backtest
                            \* is running), "panicked"
    results,                \* the Vec of results a caller is collecting
    merged,                 \* the value of BacktestResult::merge(results)
    twins,                  \* for each result in `results`, the result the same
                            \* call returns on an engine with the other
                            \* setting of collect_trade_details
    backtest,               \* the locals of a run_backtest call
    detailed,               \* the locals of a run_detailed_backtest call
    cache,                  \* StockDataProvider.cache: symbol -> Stock
    lock,                   \* the holder of the Mutex around cache, 0 when free
    threads,                \* per thread: its position in get_daily_bars
    fetches,                \* per symbol: the calls of fetch_stock_data so far
    inserts,                \* per symbol: the calls of cache.insert so far
    calls,                  \* the get_daily_bars calls begun so far
    stock_data,             \* BacktestEngine.stock_data: symbol -> bars
    load,                   \* the locals of a load_data call
    scorecard               \* a Scorecard and the locals of its run call

\* the variables of the data provider and of load_data
providerVars == <<cache, lock, threads, fetches, inserts, calls>>
loadVars == <<stock_data, load>>

\* the variables of the drivers, the data provider and the scorecard
laterVars == <<detailed, providerVars, loadVars, scorecard>>

vars == <<collect_trade_details, signals, target, forecast_idx, trades, acc, result,
          pc, results, merged, twins, backtest, laterVars>>
callVars == <<signals, target, forecast_idx, trades, acc, result>>

\* the value of `target` while no call is recorded
IdleTarget == [target_return |-> Zero, stop_loss |-> Zero, in_days |-> 0]

\* the value of `backtest` while run_backtest is not running
IdleBacktest ==
    [back_days |-> 0, offsets |-> <<>>, scores |-> <<>>, total_score |-> Zero,
     value |-> Zero]

\* ------------------------------------------ selectors and entry rules
\* RsiSelector::new(top_n, period, oversold_threshold)
RsiSelector(top_n, period, oversold_threshold) ==
    [top_n |-> top_n, period |-> period, oversold_threshold |-> oversold_threshold]

\* the loop of RsiSelector::calculate_rsi over i..=idx: gain_sum and loss_sum
RECURSIVE RsiSums(_, _, _, _)
RsiSums(data, i, idx, sums) ==
    IF i > idx THEN sums
    ELSE IF At(data, i).close - At(data, i - 1).close >= 0
      THEN RsiSums(data, i + 1, idx,
                   [sums EXCEPT !.gain_sum = @ + At(data, i).close - At(data, i - 1).close])
      ELSE RsiSums(data, i + 1, idx,
                   [sums EXCEPT !.loss_sum = @ + At(data, i - 1).close - At(data, i).close])

\* the value calculate_rsi returns for its two sums
RsiOf(sums) ==
    IF sums.loss_sum = 0 THEN FromInt(100)
    ELSE RSub(FromInt(100),
              RDiv(FromInt(100), RAdd(One, Rat(sums.gain_sum, sums.loss_sum))))

\* RsiSelector::calculate_rsi(data, idx)
CalculateRsi(sel, data, idx) ==
    IF idx < sel.period \/ Len(data) <= idx THEN FromInt(50)
    ELSE RsiOf(RsiSums(data, idx - sel.period + 1, idx, [gain_sum |-> 0, loss_sum |-> 0]))

\* the branches of RsiSelector::calculate_score on rsi and rsi_prev
RsiScore(sel, rsi, rsi_prev) ==
    IF RLt(rsi_prev, FromInt(sel.oversold_threshold)) /\ RLt(rsi_prev, rsi)
      THEN RAdd(RSub(FromInt(100), rsi), RMul(RSub(rsi, rsi_prev), FromInt(5)))
    ELSE IF RLt(rsi, FromInt(sel.oversold_threshold)) THEN RSub(FromInt(50), rsi)
    ELSE Zero

\* RsiSelector::calculate_score(symbol, data, forecast_idx)
CalculateScore(sel, data, f) ==
    IF Len(data) <= f \/ f < sel.period THEN Zero
    ELSE RsiScore(sel, CalculateRsi(sel, data, f), CalculateRsi(sel, data, f - 1))

\* the scores vector of StockSelector::run: one (symbol, data, score) per
\* stock, in the order of stock_data (the indexed collect keeps it)
ScoresOf(sel, stock_data_vec, f) ==
    [k \in 1..Len(stock_data_vec) |->
        [symbol |-> stock_data_vec[k].symbol, data |-> stock_data_vec[k].data,
         score |-> CalculateScore(sel, stock_data_vec[k].data, f)]]

\* the comparison closure of the sort: b.2 before a.2 when b.2 is greater
ScoreBefore(b, a) == RLt(a.score, b.score)

\* one step of that sort: x goes behind every element it is not before
InsertByScore(sorted, x) ==
    SelectSeq(sorted, LAMBDA e : ~ScoreBefore(x, e)) \o <<x>>
      \o SelectSeq(sorted, LAMBDA e : ScoreBefore(x, e))

\* par_sort_unstable_by on the scores: descending by score. The order of
\* equal scores is not specified by the sort, but it is a function of the
\* vector it is given: the sort draws on nothing else. It is modelled as
\* the insertion sort that slices this short are sorted with, which keeps
\* equal scores in the order of the input
RECURSIVE SortedByScore(_)
SortedByScore(scores) ==
    IF scores = <<>> THEN <<>>
    ELSE InsertByScore(SortedByScore(SubSeq(scores, 1, Len(scores) - 1)),
                       scores[Len(scores)])

\* into_iter().take(top_n).map(..): the first top_n as (symbol, data)
TakeTop(sorted, top_n) ==
    [k \in 1..(IF top_n < Len(sorted) THEN top_n ELSE Len(sorted)) |->
        [symbol |-> sorted[k].symbol, data |-> sorted[k].data]]

\* StockSelector::run(stock_data, forecast_idx)
SelectorRun(sel, stock_data_vec, f) ==
    IF stock_data_vec = <<>> THEN <<>>
    ELSE TakeTop(SortedByScore(ScoresOf(sel, stock_data_vec, f)), sel.top_n)

\* the entry rules of signals/price.rs
ClosePriceSignal == "ClosePriceSignal"
OpenPriceSignal == "OpenPriceSignal"

\* calculate_buy_price of ClosePriceSignal and of OpenPriceSignal
CalculateBuyPrice(gen, data, f) ==
    IF Len(data) <= f + 1 THEN 0
    ELSE IF gen = ClosePriceSignal THEN At(data, f + 1).close
    ELSE At(data, f + 1).open

\* BuySignalGenerator::generate_signals(candidates, forecast_idx)
GenerateSignals(gen, candidates, f) ==
    [k \in 1..Len(candidates) |->
        [symbol |-> candidates[k].symbol, data |-> candidates[k].data,
         buy_price |-> CalculateBuyPrice(gen, candidates[k].data, f)]]

\* the Vec run_single_test collects from self.stock_data.iter(): the panel
\* in the iteration order of the engine's HashMap
StockDataVec(order) ==
    [k \in 1..Len(order) |-> [symbol |-> order[k], data |-> StockData[order[k]]]]

\* run_single_test(selector, signal_generator, target, forecast_idx)
RunSingleTestValue(order, sel, gen, t, f) ==
    TargetRun(t, GenerateSignals(gen, SelectorRun(sel, StockDataVec(order), f), f), f)

\* run_backtest(selector, signal_generator, target, back_days)
RunBacktestValue(order, sel, gen, t, back_days) ==
    MeanScore(RSum([f \in 1..back_days |-> RunSingleTestValue(order, sel, gen, t, f)]),
              back_days)

\* -------------------------------------------------------- the Scorecard
\* Scorecard.targets, Scorecard.selectors and Scorecard.signals
ScorecardTargets ==
    <<ReturnTarget(Rat(10, 100), Rat(10, 100), 1), GuardTarget(Rat(10, 100), 1)>>
ScorecardSelectors == <<RsiSelector(1, 1, 30), RsiSelector(2, 1, 30)>>
ScorecardSignals == <<ClosePriceSignal, OpenPriceSignal>>

\* Scorecard.back_days
ScorecardBackDays == 0..MaxOffset

\* orders in which the engine's HashMap can iterate over the panel: two of
\* them, which differ in the order of every pair of stocks
PanelOrders == {<<"S1", "S2", "S3">>, <<"S3", "S2", "S1">>}

\* the best of find_best_combination before its loop: (0, 0, 0, 0.0)
InitBest == [t |-> 0, s |-> 0, sig |-> 0, score |-> Zero]

\* no Scorecard yet
IdleScorecard ==
    [phase |-> "none", back_days |-> 0, order |-> <<>>, runs |-> 0,
     combinations |-> <<>>, status |-> <<>>, scores |-> <<>>, current |-> 0,
     next |-> 1, results |-> <<>>, writes |-> <<>>, overtaken |-> FALSE,
     first |-> <<>>, first_overtaken |-> FALSE, best |-> InitBest]

\* the locals of the two drivers before their loop; per_offset is the list of
\* the results run_detailed_test returned so far, value the driver's result
DriverLocals ==
    [total_trades |-> 0, winning_trades |-> 0, losing_trades |-> 0,
     stop_loss_trades |-> 0, stop_loss_fail_trades |-> 0,
     total_return |-> Zero, max_return |-> FromInt(-1), max_loss |-> Zero,
     total_hold_days |-> Zero, all_returns |-> <<>>]

\* the value of `detailed` while no driver is running
IdleDetailed ==
    [driver |-> "none", back_days |-> 0, locals |-> DriverLocals, per_offset |-> <<>>,
     value |-> NewResult]

\* ------------------------------------------------ the data behind the provider
\* a symbol is the sequence of its digits
MaxThreads == 2
MaxCalls == 4
Threads == 1..MaxThreads

\* `bars.len() >= 120`
MinBars == 120

\* a series of n bars
SeriesOfLen(n) == [k \in 1..n |-> Bar(k - 1, Quiet)]

\* what DataHubProvider holds: the stocks get_stock_by_symbol finds; a
\* symbol outside the domain gives None
DataSource ==
    (<<6, 0, 0, 0, 0, 0>> :> [symbol |-> <<6, 0, 0, 0, 0, 0>>, name |-> "A",
                              daily |-> SeriesOfLen(MinBars)])
    @@ (<<0, 0, 0, 0, 0, 1>> :> [symbol |-> <<0, 0, 0, 0, 0, 1>>, name |-> "B",
                                 daily |-> SeriesOfLen(MinBars - 1)])
    @@ (<<6, 8, 8, 0, 0, 1>> :> [symbol |-> <<6, 8, 8, 0, 0, 1>>, name |-> "C",
                                 daily |-> SeriesOfLen(MinBars + 1)])
    @@ (<<3, 0, 0, 7, 5, 0>> :> [symbol |-> <<3, 0, 0, 7, 5, 0>>, name |-> "D",
                                 daily |-> SeriesOfLen(MinBars)])
    @@ (<<6, 0, 1, 0, 0, 0>> :> [symbol |-> <<6, 0, 1, 0, 0, 0>>, name |-> "E",
                                 daily |-> SeriesOfLen(MinBars + 1)])

\* get_all_stocks(): the symbols the provider lists; 600001 is listed but
\* get_stock_by_symbol does not find it
AllStocks ==
    << <<6, 0, 0, 0, 0, 0>>, <<6, 8, 8, 0, 0, 1>>, <<0, 0, 0, 0, 0, 1>>,
       <<3, 0, 0, 7, 5, 0>>, <<6, 0, 0, 0, 0, 1>>, <<6, 8, 9, 0, 0, 9>>,
       <<3, 0, 1, 0, 0, 1>>, <<6, 0, 1, 0, 0, 0>>, <<3, 0, 2, 1, 3, 2>> >>
AllSymbols == {AllStocks[k] : k \in 1..Len(AllStocks)}

\* Option<Vec<DailyBar>>
NoneBars == [some |-> FALSE, daily |-> <<>>]
SomeBars(daily) == [some |-> TRUE, daily |-> daily]

\* a thread outside get_daily_bars; cached_at_call and during record, for the
\* call in progress, whether the symbol was cached when the call began and
\* which threads have been fetching another symbol since it began
NoStock == [symbol |-> <<>>, name |-> "", daily |-> <<>>]
IdleThread ==
    [pc |-> "idle", symbol |-> <<>>, stock |-> NoStock, ret |-> NoneBars,
     cached_at_call |-> FALSE, during |-> {}]

\* the value of `load` while load_data has not been called
IdleLoad ==
    [phase |-> "none", cache_enabled |-> FALSE, filtered |-> <<>>, started |-> {},
     running |-> [th \in Threads |-> 0], slots |-> <<>>, finished |-> <<>>]

\* BacktestEngine::new: collect_trade_details is false
Init ==
    /\ collect_trade_details = FALSE
    /\ signals = <<>>
    /\ target = IdleTarget
    /\ forecast_idx = 0
    /\ trades = <<>>
    /\ acc = InitAcc(<<>>, FALSE)
    /\ result = NewResult
    /\ pc = "idle"
    /\ results = <<>>
    /\ merged = NewResult
    /\ twins = <<>>
    /\ backtest = IdleBacktest
    /\ detailed = IdleDetailed
    /\ cache = <<>>
    /\ lock = 0
    /\ threads = [th \in Threads |-> IdleThread]
    /\ fetches = [sym \in AllSymbols |-> 0]
    /\ inserts = [sym \in AllSymbols |-> 0]
    /\ calls = 0
    /\ stock_data = <<>>
    /\ load = IdleLoad
    /\ scorecard = IdleScorecard

\* set_collect_trade_details(collect)
SetCollectTradeDetails ==
    /\ pc = "idle"
    /\ \E collect \in BOOLEAN : collect_trade_details' = collect
    /\ UNCHANGED <<laterVars, callVars, pc, results, merged, twins, backtest>>

\* the end of a call: the caller holds the result, or the call panicked
Leave(out) ==
    /\ trades' = out.trades
    /\ acc' = out.acc
    /\ result' = out.result
    /\ pc' = IF out.panicked THEN "panicked" ELSE "returned"

\* one call evaluate_signals(sigs, t, f): it returns a result or panics
Evaluate(sigs, t, f) ==
    /\ pc = "idle"
    /\ signals' = sigs
    /\ target' = t
    /\ forecast_idx' = f
    /\ Leave(EvaluateSignals(sigs, t, f, collect_trade_details))
    /\ UNCHANGED <<laterVars, collect_trade_details, results, merged, twins, backtest>>

\* evaluate_signals on one signal whose series has any bars from the
\* decision day on, from none up to one more than the longest horizon needs
EvaluateOne ==
    /\ pc = "idle"
    /\ \E f \in Offsets, t \in Targets, n \in 0..(MaxDays + 1), buy_price \in BuyPrices :
           \E tail \in Tails(f, n) :
               Evaluate(<<GridSignal(f, n, tail, buy_price)>>, t, f)

\* evaluate_signals on a list of signals selected from the panel
EvaluateList ==
    /\ pc = "idle"
    /\ \E f \in Offsets, t \in Targets, sigs \in SignalLists : Evaluate(sigs, t, f)

\* the caller drops the value it holds; the engine is ready for the next call
Drop ==
    /\ pc \in {"returned", "merged", "backtested"}
    /\ pc' = "idle"
    /\ signals' = <<>>
    /\ target' = IdleTarget
    /\ forecast_idx' = 0
    /\ trades' = <<>>
    /\ acc' = InitAcc(<<>>, FALSE)
    /\ result' = NewResult
    /\ merged' = NewResult
    /\ backtest' = IdleBacktest
    /\ UNCHANGED <<laterVars, collect_trade_details, results, twins>>

Next == SetCollectTradeDetails \/ EvaluateOne \/ EvaluateList \/ Drop

Spec == Init /\ [][Next]_vars

\* -------------------------------------------- collecting and merging results
\* results.push(result) with the value `out` of a call that returned; `other`
\* is the value of the same call with the other setting of the flag
Push(out, other) ==
    /\ pc' = IF out.panicked THEN "panicked" ELSE "idle"
    /\ results' = IF out.panicked THEN results ELSE Append(results, out.result)
    /\ twins' = IF out.panicked THEN twins ELSE Append(twins, other.result)

\* a caller walks the offsets 1, 2, .. with one target: it evaluates the
\* signals selected at the next offset and pushes the returned result
PushResult ==
    /\ pc = "idle"
    /\ Len(results) < MaxResults
    /\ \E t \in IF results = <<>> THEN Targets ELSE {target}, sigs \in SignalLists :
           /\ target' = t
           /\ Push(EvaluateSignals(sigs, t, Len(results) + 1, collect_trade_details),
                   EvaluateSignals(sigs, t, Len(results) + 1, ~collect_trade_details))
    /\ UNCHANGED <<laterVars, collect_trade_details, signals, forecast_idx, trades, acc, result,
                   merged, backtest>>

\* BacktestResult::merge(results): the Vec is moved into the call
MergeResults ==
    /\ pc = "idle"
    /\ merged' = Merge(results)
    /\ results' = <<>>
    /\ twins' = <<>>
    /\ pc' = "merged"
    /\ UNCHANGED <<laterVars, collect_trade_details, callVars, backtest>>

NextMerge == SetCollectTradeDetails \/ PushResult \/ MergeResults \/ Drop

SpecMerge == Init /\ [][NextMerge]_vars

\* ------------------------------------------------------------ run_backtest
\* the values of back_days run_backtest is called with
BackDays == 0..MaxOffset

\* run_backtest(selector, signal_generator, target, back_days) is entered
RunBacktest ==
    /\ pc = "idle"
    /\ results = <<>>
    /\ \E t \in BacktestTargets, back_days \in BackDays :
         /\ target' = t
         /\ backtest' = [IdleBacktest EXCEPT !.back_days = back_days]
    /\ pc' = "backtest"
    /\ UNCHANGED <<laterVars, collect_trade_details, signals, forecast_idx, trades, acc, result,
                   results, merged, twins>>

\* the locals of run_backtest after run_single_test at offset f returned score
Scored(bt, f, score) ==
    [bt EXCEPT !.offsets = Append(@, f),
               !.scores = Append(@, score),
               !.total_score = RAdd(@, score)]

\* the next element of the range 1..=back_days: run_single_test selects, makes
\* the signals and returns target.run(signals, forecast_idx)
RunSingleTest ==
    /\ pc = "backtest"
    /\ Len(backtest.offsets) < backtest.back_days
    /\ \E sigs \in SignalLists :
         /\ signals' = sigs
         /\ forecast_idx' = Len(backtest.offsets) + 1
         /\ backtest' = Scored(backtest, Len(backtest.offsets) + 1,
                               TargetRun(target, sigs, Len(backtest.offsets) + 1))
    /\ UNCHANGED <<laterVars, collect_trade_details, target, trades, acc, result, pc, results,
                   merged, twins>>

\* the range is exhausted: run_backtest returns total_score / back_days
ReturnBacktest ==
    /\ pc = "backtest"
    /\ Len(backtest.offsets) = backtest.back_days
    /\ backtest' = [backtest EXCEPT
                       !.value = MeanScore(backtest.total_score, backtest.back_days)]
    /\ pc' = "backtested"
    /\ UNCHANGED <<laterVars, collect_trade_details, callVars, results, merged, twins>>

NextBacktest ==
    SetCollectTradeDetails \/ RunBacktest \/ RunSingleTest \/ ReturnBacktest \/ Drop

SpecBacktest == Init /\ [][NextBacktest]_vars

\* ----------------------------------- the drivers' pooled detailed result
\* the two drivers: run_detailed_backtest_for_export of bin/backtest.rs and
\* run_detailed_backtest of main.rs
Drivers == {"export", "main"}

\* the body of `for forecast_idx in 1..=back_days` after run_detailed_test
\* returned r; main.rs has no stop_loss_fail_trades and no all_returns local
DriverStep(loc, r, driver) ==
    [total_trades |-> loc.total_trades + r.total_trades,
     winning_trades |-> loc.winning_trades + r.winning_trades,
     losing_trades |-> loc.losing_trades + r.losing_trades,
     stop_loss_trades |-> loc.stop_loss_trades + r.stop_loss_trades,
     stop_loss_fail_trades |->
         IF driver = "export" THEN loc.stop_loss_fail_trades + r.stop_loss_fail_trades
         ELSE loc.stop_loss_fail_trades,
     total_return |-> RAdd(loc.total_return, RMul(r.avg_return, FromInt(r.total_trades))),
     max_return |-> RMax(loc.max_return, r.max_return),
     max_loss |-> RMin(loc.max_loss, r.max_loss),
     total_hold_days |->
         RAdd(loc.total_hold_days, RMul(r.avg_hold_days, FromInt(r.total_trades))),
     all_returns |->
         IF driver = "export" /\ r.trade_details.some
           THEN loc.all_returns \o
                [j \in 1..Len(r.trade_details.list) |-> r.trade_details.list[j].return_pct]
           ELSE loc.all_returns]

\* the BacktestResult literal both drivers build after the loop
DriverLiteral(loc, in_days, driver) ==
    [total_trades |-> loc.total_trades,
     winning_trades |-> loc.winning_trades,
     losing_trades |-> loc.losing_trades,
     stop_loss_trades |-> loc.stop_loss_trades,
     stop_loss_fail_trades |-> IF driver = "export" THEN loc.stop_loss_fail_trades ELSE 0,
     win_rate |-> IF loc.total_trades > 0 THEN Rat(loc.winning_trades, loc.total_trades)
                  ELSE Zero,
     stop_loss_rate |->
         IF loc.total_trades > 0 THEN Rat(loc.stop_loss_trades, loc.total_trades) ELSE Zero,
     stop_loss_fail_rate |->
         IF driver = "export" /\ loc.total_trades > 0
           THEN Rat(loc.stop_loss_fail_trades, loc.total_trades) ELSE Zero,
     avg_return |-> IF loc.total_trades > 0
                      THEN RDiv(loc.total_return, FromInt(loc.total_trades)) ELSE Zero,
     max_return |-> loc.max_return,
     max_loss |-> loc.max_loss,
     avg_hold_days |-> IF loc.total_trades > 0
                         THEN RDiv(loc.total_hold_days, FromInt(loc.total_trades))
                         ELSE Rat(in_days, 2),
     sharpe_ratio |-> [sign |-> 0, square |-> Zero],
     max_drawdown |-> Zero,
     profit_factor |-> Zero,
     trade_details |-> NoDetails]

\* the value a driver returns: the export driver calls
\* calculate_advanced_metrics(&all_returns) on the literal
DriverResult(loc, in_days, driver) ==
    IF driver = "export"
      THEN CalculateAdvancedMetrics(DriverLiteral(loc, in_days, driver), loc.all_returns)
      ELSE DriverLiteral(loc, in_days, driver)

\* a driver is entered with a target and back_days
RunDetailedBacktest ==
    /\ pc = "idle"
    /\ results = <<>>
    /\ \E driver \in Drivers, t \in Targets, back_days \in BackDays :
         /\ target' = t
         /\ detailed' = [IdleDetailed EXCEPT !.driver = driver, !.back_days = back_days]
    /\ pc' = "detailed"
    /\ UNCHANGED <<scorecard, providerVars, loadVars, collect_trade_details, signals, forecast_idx, trades, acc, result,
                   results, merged, twins, backtest>>

\* the loop body with the value `out` of run_detailed_test
Pooled(out) ==
    /\ pc' = IF out.panicked THEN "panicked" ELSE pc
    /\ detailed' =
         IF out.panicked THEN detailed
         ELSE [detailed EXCEPT !.locals = DriverStep(@, out.result, detailed.driver),
                               !.per_offset = Append(@, out.result)]

\* the next forecast_idx of 1..=back_days: run_detailed_test selects, makes
\* the signals and returns evaluate_signals(signals, target, forecast_idx)
RunDetailedTest ==
    /\ pc = "detailed"
    /\ Len(detailed.per_offset) < detailed.back_days
    /\ \E sigs \in SignalLists :
         /\ signals' = sigs
         /\ forecast_idx' = Len(detailed.per_offset) + 1
         /\ Pooled(EvaluateSignals(sigs, target, Len(detailed.per_offset) + 1,
                                   collect_trade_details))
    /\ UNCHANGED <<scorecard, providerVars, loadVars, collect_trade_details, target, trades, acc, result, results, merged,
                   twins, backtest>>

\* the loop is over: the driver builds and returns its result
ReturnDetailed ==
    /\ pc = "detailed"
    /\ Len(detailed.per_offset) = detailed.back_days
    /\ detailed' = [detailed EXCEPT
                       !.value = DriverResult(detailed.locals, target.in_days,
                                              detailed.driver)]
    /\ pc' = "pooled"
    /\ UNCHANGED <<scorecard, providerVars, loadVars, collect_trade_details, callVars, results, merged, twins, backtest>>

\* the caller drops the pooled result
DropDetailed ==
    /\ pc = "pooled"
    /\ pc' = "idle"
    /\ detailed' = IdleDetailed
    /\ signals' = <<>>
    /\ target' = IdleTarget
    /\ forecast_idx' = 0
    /\ UNCHANGED <<scorecard, providerVars, loadVars, collect_trade_details, trades, acc, result, results, merged, twins,
                   backtest>>

NextDetailed ==
    \/ SetCollectTradeDetails
    \/ RunDetailedBacktest
    \/ RunDetailedTest
    \/ ReturnDetailed
    \/ DropDetailed

SpecDetailed == Init /\ [][NextDetailed]_vars

\* ------------------------------------- StockDataProvider::get_daily_bars
\* the symbols the callers of the provider ask for
LookupSymbols == {<<6, 0, 0, 0, 0, 0>>, <<0, 0, 0, 0, 0, 1>>, <<6, 0, 0, 0, 0, 1>>}

\* mutant: the guard of the first block lives on after a miss
HolderAfterMiss_Kept(th) == th

\* the holder of the lock after the first block ended on a miss: the
\* MutexGuard is dropped at the closing brace
HolderAfterMiss(th) == 0

\* mutant: the insert leaves only the new entry in the map
Inserted_Alone(map, sym, stock) == sym :> stock

\* cache.insert(symbol.to_string(), stock.clone())
Inserted(map, sym, stock) ==
    [s \in (DOMAIN map) \cup {sym} |-> IF s = sym THEN stock ELSE map[s]]

\* a thread enters get_daily_bars(sym)
Enter(th, sym) ==
    /\ threads[th].pc = "idle"
    /\ threads' = [threads EXCEPT ![th] =
                     [IdleThread EXCEPT
                        !.pc = "lock_check",
                        !.symbol = sym,
                        !.cached_at_call = sym \in DOMAIN cache,
                        !.during = {o \in Threads \ {th} :
                                      threads[o].pc = "fetch" /\ threads[o].symbol # sym}]]
    /\ calls' = calls + 1
    /\ UNCHANGED <<cache, lock, fetches, inserts>>

\* `let cache = self.cache.lock().unwrap();` of the first block
LockForCheck(th) ==
    /\ threads[th].pc = "lock_check"
    /\ lock = 0
    /\ lock' = th
    /\ threads' = [threads EXCEPT ![th].pc = "check"]
    /\ UNCHANGED <<cache, fetches, inserts, calls>>

\* `if let Some(stock) = cache.get(symbol) { return Some(stock.daily.clone()); }`
\* and the end of the block; either way the guard is dropped
CheckCache(th) ==
    /\ threads[th].pc = "check"
    /\ IF threads[th].symbol \in DOMAIN cache
         THEN /\ threads' = [threads EXCEPT
                               ![th].pc = "done",
                               ![th].ret = SomeBars(cache[threads[th].symbol].daily)]
              /\ lock' = 0
         ELSE /\ threads' = [threads EXCEPT ![th].pc = "fetch"]
              /\ lock' = HolderAfterMiss(th)
    /\ UNCHANGED <<cache, fetches, inserts, calls>>

\* the threads record that th is no longer fetching
Fetched(th, mine) ==
    [o \in Threads |->
        IF o = th THEN mine ELSE [threads[o] EXCEPT !.during = @ \ {th}]]

\* `let stock = self.fetch_stock_data(symbol)?;`
FetchStockData(th) ==
    /\ threads[th].pc = "fetch"
    /\ fetches' = [fetches EXCEPT ![threads[th].symbol] = @ + 1]
    /\ threads' =
         IF threads[th].symbol \in DOMAIN DataSource
           THEN Fetched(th, [threads[th] EXCEPT
                               !.pc = "lock_insert",
                               !.stock = DataSource[threads[th].symbol]])
           ELSE Fetched(th, [threads[th] EXCEPT !.pc = "done", !.ret = NoneBars])
    /\ UNCHANGED <<cache, lock, inserts, calls>>

\* `let mut cache = self.cache.lock().unwrap();` of the second block
LockForInsert(th) ==
    /\ threads[th].pc = "lock_insert"
    /\ lock = 0
    /\ lock' = th
    /\ threads' = [threads EXCEPT ![th].pc = "insert"]
    /\ UNCHANGED <<cache, fetches, inserts, calls>>

\* the insert, the end of the second block and `Some(stock.daily)`
InsertCache(th) ==
    /\ threads[th].pc = "insert"
    /\ cache' = Inserted(cache, threads[th].symbol, threads[th].stock)
    /\ inserts' = [inserts EXCEPT ![threads[th].symbol] = @ + 1]
    /\ lock' = 0
    /\ threads' = [threads EXCEPT ![th].pc = "done",
                                  ![th].ret = SomeBars(threads[th].stock.daily)]
    /\ UNCHANGED <<fetches, calls>>

\* a step inside get_daily_bars of some thread
Step ==
    \E th \in Threads :
        \/ LockForCheck(th)
        \/ CheckCache(th)
        \/ FetchStockData(th)
        \/ LockForInsert(th)
        \/ InsertCache(th)

\* the engine and the drivers do not move while the provider is at work
engineVars ==
    <<collect_trade_details, signals, target, forecast_idx, trades, acc, result, pc,
      results, merged, twins, backtest, detailed>>

\* some thread calls get_daily_bars with some symbol
GetDailyBars ==
    /\ calls < MaxCalls
    /\ \E th \in Threads, sym \in LookupSymbols : Enter(th, sym)
    /\ UNCHANGED <<scorecard, engineVars, loadVars>>

\* a step of a call in progress
InGetDailyBars == Step /\ UNCHANGED <<scorecard, engineVars, loadVars>>

\* the call returns its value to the caller
ReturnBars ==
    /\ \E th \in Threads :
         /\ threads[th].pc = "done"
         /\ threads' = [threads EXCEPT ![th] = IdleThread]
    /\ UNCHANGED <<scorecard, engineVars, loadVars, cache, lock, fetches, inserts, calls>>

NextProvider == GetDailyBars \/ InGetDailyBars \/ ReturnBars

SpecProvider == Init /\ [][NextProvider]_vars

\* ------------------------------------------------ BacktestEngine::load_data
\* the prefixes filter_stocks excludes
ExcludedPrefixes == {<<6, 8, 8>>, <<6, 8, 9>>, <<3, 0, 0>>, <<3, 0, 1>>, <<3, 0, 2>>}

\* symbol.starts_with(prefix)
StartsWith(symbol, prefix) ==
    Len(symbol) >= Len(prefix) /\ SubSeq(symbol, 1, Len(prefix)) = prefix

\* filter_stocks(symbols): the symbols with none of the prefixes, in order
FilterStocks(symbols) ==
    SelectSeq(symbols, LAMBDA symbol : \A prefix \in ExcludedPrefixes :
                                           ~StartsWith(symbol, prefix))

\* mutant: a series needs more than 120 bars
LongEnough_MoreThan(bars) == Len(bars) > MinBars

\* `bars.len() >= 120`
LongEnough(bars) == Len(bars) >= MinBars

\* the item a task of the parallel path yields for the symbol at position i,
\* or the mark of the sequential path that position i is done
PendingSlot == [state |-> "pending", symbol |-> <<>>, bars |-> <<>>]
SlotOf(symbol, ret) ==
    IF ret.some /\ LongEnough(ret.daily)
      THEN [state |-> "some", symbol |-> symbol, bars |-> ret.daily]
      ELSE [state |-> "none", symbol |-> <<>>, bars |-> <<>>]

\* `.collect()` into HashMap<String, Vec<DailyBar>>: the items in the order
\* of the positions, a later item for the same key replacing an earlier one
RECURSIVE Collected(_, _, _)
Collected(slots, i, map) ==
    IF i > Len(slots) THEN map
    ELSE Collected(slots, i + 1,
                   IF slots[i].state = "some"
                     THEN Inserted(map, slots[i].symbol, slots[i].bars)
                     ELSE map)

\* load_data is entered on an engine made by BacktestEngine::new(cache_enabled)
LoadData ==
    /\ load.phase = "none"
    /\ calls = 0
    /\ \E cache_enabled \in BOOLEAN :
         load' = [IdleLoad EXCEPT
                    !.phase = "loading",
                    !.cache_enabled = cache_enabled,
                    !.filtered = FilterStocks(AllStocks),
                    !.slots = [i \in 1..Len(FilterStocks(AllStocks)) |-> PendingSlot]]
    /\ UNCHANGED <<scorecard, engineVars, providerVars, stock_data>>

\* the positions a thread may take next: with par_iter any position not yet
\* taken, in the `for` loop the first one, on the calling thread, once the
\* previous iteration is over
Takes(th) ==
    IF load.cache_enabled
      THEN (1..Len(load.filtered)) \ load.started
      ELSE {i \in 1..Len(load.filtered) :
              /\ th = 1
              /\ load.started = 1..(i - 1)
              /\ Len(load.finished) = i - 1}

\* a task calls get_daily_bars(symbol)
StartTask ==
    /\ load.phase = "loading"
    /\ \E th \in Threads : \E i \in Takes(th) :
         /\ Enter(th, load.filtered[i])
         /\ load' = [load EXCEPT !.started = @ \cup {i}, !.running[th] = i]
    /\ UNCHANGED <<scorecard, engineVars, stock_data>>

\* a step of a get_daily_bars call of a task
InTask ==
    /\ load.phase = "loading"
    /\ Step
    /\ UNCHANGED <<scorecard, engineVars, loadVars>>

\* get_daily_bars returned: the parallel task yields its item; the sequential
\* iteration inserts into self.stock_data
FinishTask ==
    /\ load.phase = "loading"
    /\ \E th \in Threads :
         /\ threads[th].pc = "done"
         /\ load.running[th] # 0
         /\ load' = [load EXCEPT
                       !.slots[load.running[th]] =
                           SlotOf(load.filtered[load.running[th]], threads[th].ret),
                       !.running[th] = 0,
                       !.finished = Append(@, load.running[th])]
         /\ stock_data' =
              IF ~load.cache_enabled /\ threads[th].ret.some
                 /\ LongEnough(threads[th].ret.daily)
                THEN Inserted(stock_data, load.filtered[load.running[th]],
                              threads[th].ret.daily)
                ELSE stock_data
         /\ threads' = [threads EXCEPT ![th] = IdleThread]
    /\ UNCHANGED <<scorecard, engineVars, cache, lock, fetches, inserts, calls>>

\* every position is done: `self.stock_data = stock_data` on the parallel
\* path, and load_data returns Ok(())
ReturnLoad ==
    /\ load.phase = "loading"
    /\ Len(load.finished) = Len(load.filtered)
    /\ stock_data' = IF load.cache_enabled THEN Collected(load.slots, 1, <<>>)
                     ELSE stock_data
    /\ load' = [load EXCEPT !.phase = "loaded"]
    /\ UNCHANGED <<scorecard, engineVars, providerVars>>

NextLoad == LoadData \/ StartTask \/ InTask \/ FinishTask \/ ReturnLoad

SpecLoad == Init /\ [][NextLoad]_vars

\* ===================================================================
\* Properties.  The predicates below restate the conditions of the exit
\* policy from the bars of a signal alone; none of them uses the operators
\* of the simulation above.
\* ===================================================================
Returned == pc = "returned"
Positions == 1..Len(signals)

\* a signal that is simulated: positive buy price, series longer than
\* offset + horizon
IsSimulated(sig) ==
    sig.buy_price > 0 /\ Len(sig.data) > forecast_idx + target.in_days

\* bar of day i of a signal, i counted as an index of its series
DayBar(sig, i) == sig.data[i + 1]
HasDay(sig, i) == i + 1 <= Len(sig.data)

\* x < buy_price * (1 - stop_loss), x <= it, x >= it, for a price x
BelowStop(x, sig) ==
    x * target.stop_loss.d < sig.buy_price * (target.stop_loss.d - target.stop_loss.n)
AtOrBelowStop(x, sig) ==
    x * target.stop_loss.d <= sig.buy_price * (target.stop_loss.d - target.stop_loss.n)
AtOrAboveStop(x, sig) == ~BelowStop(x, sig)

\* the stop price and the return of a price, as rationals
StopPriceOf(sig) ==
    Rat(sig.buy_price * (target.stop_loss.d - target.stop_loss.n), target.stop_loss.d)
ReturnOf(x, sig) == Rat(x - sig.buy_price, sig.buy_price)

\* (close - buy_price) / buy_price >= target_return on day i
TargetOn(sig, i) ==
    (DayBar(sig, i).close - sig.buy_price) * target.target_return.d
        >= target.target_return.n * sig.buy_price
\* the open of day i is below the stop price
GapOn(sig, i) == BelowStop(DayBar(sig, i).open, sig)
\* low <= stop price <= open on day i
TouchOn(sig, i) ==
    AtOrBelowStop(DayBar(sig, i).low, sig) /\ AtOrAboveStop(DayBar(sig, i).open, sig)
\* some exit condition holds on day i
ExitOn(sig, i) == TargetOn(sig, i) \/ GapOn(sig, i) \/ TouchOn(sig, i)

FirstDay == forecast_idx + 1
LastDay == forecast_idx + target.in_days
Horizon == FirstDay..LastDay
\* no exit condition held on a day of the horizon before day i
NoExitBefore(sig, i) == \A j \in FirstDay..(i - 1) : ~ExitOn(sig, j)

\* C1: a simulated trade whose day offset+1 opens below the stop price ends
\* StopLossFailed on day 1 at that open, with the return of that open,
\* whatever the close and low of that day and the bars of later days are.
C1_GapDownPrecedence ==
    Returned =>
      \A k \in Positions :
        LET sig == signals[k]
            out == trades[k].loc
        IN  (IsSimulated(sig) /\ HasDay(sig, FirstDay) /\ GapOn(sig, FirstDay))
              => /\ ~trades[k].skipped
                 /\ out.exit_reason = StopLossFailed
                 /\ out.exit_price = FromInt(DayBar(sig, FirstDay).open)
                 /\ out.exit_day = 1
                 /\ out.max_return = ReturnOf(DayBar(sig, FirstDay).open, sig)
                 /\ ~out.is_win /\ out.is_stop_loss_fail /\ ~out.is_stop_loss

\* C1 witness: a two-day trade whose first day opens below the stop price and
\* closes at the target, and whose second day closes at the target too
C1_Witness ==
    /\ Returned /\ target.in_days = 2
    /\ \E k \in Positions :
         /\ IsSimulated(signals[k]) /\ GapOn(signals[k], FirstDay)
         /\ TargetOn(signals[k], FirstDay) /\ TargetOn(signals[k], FirstDay + 1)
         /\ trades[k].loc.exit_reason = StopLossFailed

\* C2 as stated: on the first day of the horizon on which an exit condition
\* holds, a reached target wins over every stop condition of that day.
C2_TargetWinsEveryDay ==
    Returned =>
      \A k \in Positions : \A i \in Horizon :
        LET sig == signals[k]
            out == trades[k].loc
        IN  (/\ IsSimulated(sig) /\ NoExitBefore(sig, i) /\ TargetOn(sig, i)
             /\ (GapOn(sig, i) \/ AtOrBelowStop(DayBar(sig, i).low, sig)))
              => out.exit_reason = TargetReached /\ out.exit_day = i - forecast_idx

\* C2 amended: the same, except on day offset+1 when it opens below the stop
\* price (the first-day gap check comes before the scan).
C2_TargetWinsInScan ==
    Returned =>
      \A k \in Positions : \A i \in Horizon :
        LET sig == signals[k]
            out == trades[k].loc
        IN  (/\ IsSimulated(sig) /\ NoExitBefore(sig, i) /\ TargetOn(sig, i)
             /\ (GapOn(sig, i) \/ AtOrBelowStop(DayBar(sig, i).low, sig))
             /\ ~(i = FirstDay /\ GapOn(sig, i)))
              => /\ out.exit_reason = TargetReached
                 /\ out.exit_day = i - forecast_idx
                 /\ out.is_win
                 /\ out.exit_price = FromInt(DayBar(sig, i).close)

\* C2 witness: day 2 opens below the stop price and closes at the target
\* after a first day without exit, and the trade ends TargetReached on day 2
C2_Witness ==
    /\ Returned
    /\ \E k \in Positions :
         /\ IsSimulated(signals[k]) /\ target.in_days >= 2
         /\ ~ExitOn(signals[k], FirstDay)
         /\ GapOn(signals[k], FirstDay + 1) /\ TargetOn(signals[k], FirstDay + 1)
         /\ trades[k].loc.exit_reason = TargetReached
         /\ trades[k].loc.exit_day = 2

\* the positions of the last call whose trade ended with reason r
EndedWith(r) == {k \in Positions : ~trades[k].skipped /\ trades[k].loc.exit_reason = r}
\* the positions of the last call that the claim counts as simulated
SimulatedPositions == {k \in Positions : IsSimulated(signals[k])}

\* C3: every simulated trade has exactly one of the four exit reasons (its
\* flags agree with it), and the counts of the returned result are the
\* numbers of trades per reason: wins = TargetReached, stop_loss = StopLoss,
\* stop_loss_fail = StopLossFailed, the remaining losses = TimeExpired; the
\* four sum to total_trades.
C3_OutcomeCounts ==
    Returned =>
      /\ \A k \in Positions :
           ~trades[k].skipped =>
             LET out == trades[k].loc
             IN  /\ out.exit_reason \in ExitReason
                 /\ out.is_win <=> out.exit_reason = TargetReached
                 /\ out.is_stop_loss <=> out.exit_reason = StopLoss
                 /\ out.is_stop_loss_fail <=> out.exit_reason = StopLossFailed
      /\ result.winning_trades = Cardinality(EndedWith(TargetReached))
      /\ result.stop_loss_trades = Cardinality(EndedWith(StopLoss))
      /\ result.stop_loss_fail_trades = Cardinality(EndedWith(StopLossFailed))
      /\ result.losing_trades - result.stop_loss_trades - result.stop_loss_fail_trades
           = Cardinality(EndedWith(TimeExpired))
      /\ result.total_trades
           = Cardinality(EndedWith(TargetReached)) + Cardinality(EndedWith(StopLoss))
             + Cardinality(EndedWith(StopLossFailed)) + Cardinality(EndedWith(TimeExpired))
      /\ result.trade_details.some =>
           \A r \in ExitReason :
             Cardinality({j \in 1..Len(result.trade_details.list) :
                            result.trade_details.list[j].exit_reason = r})
               = Cardinality(EndedWith(r))

\* C3 witness: a call that returned two trades, one TimeExpired and one
\* stopped out
C3_Witness ==
    /\ Returned /\ result.total_trades = 2
    /\ EndedWith(TimeExpired) # {}
    /\ EndedWith(StopLoss) \cup EndedWith(StopLossFailed) # {}

\* C4: a signal with buy_price <= 0 or with a series no longer than offset +
\* horizon is skipped and adds nothing: total_trades, wins + losses, the
\* return list, the hold-day list and the detail list all have one entry per
\* remaining signal, and the stop counts are bounded by the losses.
C4_ExcludedSignals ==
    Returned =>
      /\ \A k \in Positions : trades[k].skipped <=> ~IsSimulated(signals[k])
      /\ result.total_trades = Cardinality(SimulatedPositions)
      /\ result.winning_trades + result.losing_trades = Cardinality(SimulatedPositions)
      /\ result.stop_loss_trades + result.stop_loss_fail_trades <= result.losing_trades
      /\ Len(acc.returns) = Cardinality(SimulatedPositions)
      /\ Len(acc.hold_days) = Cardinality(SimulatedPositions)
      /\ result.trade_details.some =>
           Len(result.trade_details.list) = Cardinality(SimulatedPositions)
      /\ SimulatedPositions = {} =>
           /\ result.avg_return = Zero /\ result.avg_hold_days = Zero
           /\ result.max_return = Zero /\ result.max_loss = Zero

\* C4 witness: a call whose list holds a signal without entry price or with
\* too short a series, next to a signal that is simulated
C4_Witness ==
    /\ Returned /\ Len(signals) = 2
    /\ \E k \in Positions : signals[k].buy_price > 0 /\ ~IsSimulated(signals[k])
    /\ SimulatedPositions # {}

\* a rate r of a result: it is count / total when total > 0 and 0 otherwise,
\* and it lies in [0, 1]
IsRateOf(r, count, total) ==
    /\ r.d > 0
    /\ total > 0 => r.n * total = count * r.d
    /\ total = 0 => r.n = 0
    /\ 0 <= r.n /\ r.n <= r.d

RatesHold(r) ==
    /\ IsRateOf(r.win_rate, r.winning_trades, r.total_trades)
    /\ IsRateOf(r.stop_loss_rate, r.stop_loss_trades, r.total_trades)
    /\ IsRateOf(r.stop_loss_fail_rate, r.stop_loss_fail_trades, r.total_trades)

\* C5: in every result evaluate_signals returned and in every merge of such
\* results, win_rate, stop_loss_rate and stop_loss_fail_rate are the count
\* over total_trades when total_trades > 0 and 0 when it is 0, and each lies
\* in [0, 1].
C5_Rates ==
    /\ \A k \in 1..Len(results) : RatesHold(results[k])
    /\ pc = "merged" => RatesHold(merged)

\* C5 witness: a merge of results with three trades or more, of which some
\* but not all are wins and some are stopped out
C5_Witness ==
    /\ pc = "merged" /\ merged.total_trades >= 3
    /\ merged.winning_trades > 0 /\ merged.winning_trades < merged.total_trades
    /\ merged.stop_loss_trades + merged.stop_loss_fail_trades > 0

\* an exit condition of the scan holds on day i: the target, a gap below the
\* stop price on a day after the first, or a touch of the stop price
ScanExitOn(sig, i) ==
    \/ TargetOn(sig, i)
    \/ i > FirstDay /\ GapOn(sig, i)
    \/ TouchOn(sig, i)

\* the outcome the exit policy gives to an exit on day i
ExitsOn(out, sig, i) ==
    /\ out.exit_day = i - forecast_idx
    /\ IF TargetOn(sig, i)
         THEN /\ out.exit_reason = TargetReached
              /\ out.exit_price = FromInt(DayBar(sig, i).close)
              /\ out.max_return = ReturnOf(DayBar(sig, i).close, sig)
       ELSE IF GapOn(sig, i)
         THEN /\ out.exit_reason = StopLossFailed
              /\ out.exit_price = FromInt(DayBar(sig, i).open)
              /\ out.max_return = ReturnOf(DayBar(sig, i).open, sig)
       ELSE /\ out.exit_reason = StopLoss
            /\ out.exit_price = StopPriceOf(sig)

\* C6: when day offset+1 does not open below the stop price, the trade exits
\* on the smallest day i of offset+1..offset+horizon on which an exit
\* condition of the scan holds, with exit_day = i - offset and the outcome
\* of that day; the bars of the days after i do not matter.
C6_EarliestDayWins ==
    Returned =>
      \A k \in Positions : \A i \in Horizon :
        LET sig == signals[k]
        IN  (/\ IsSimulated(sig) /\ ~GapOn(sig, FirstDay)
             /\ ScanExitOn(sig, i)
             /\ \A j \in FirstDay..(i - 1) : ~ScanExitOn(sig, j))
              => ~trades[k].skipped /\ ExitsOn(trades[k].loc, sig, i)

\* C6 witness: the stop price is touched on day 1 and the target is reached
\* on day 2, and the trade ends on day 1
C6_Witness ==
    /\ Returned /\ target.in_days = 2
    /\ \E k \in Positions :
         /\ IsSimulated(signals[k])
         /\ ~TargetOn(signals[k], FirstDay) /\ TouchOn(signals[k], FirstDay)
         /\ TargetOn(signals[k], FirstDay + 1)
         /\ trades[k].loc.exit_day = 1 /\ trades[k].loc.exit_reason = StopLoss

\* C7: on the first day with an exit, if the target is not reached, the open
\* is at or above the stop price and the low at or below it, the trade ends
\* StopLoss at the stop price buy_price * (1 - stop_loss), not at the low,
\* and its recorded return is exactly -stop_loss.
C7_CleanStopAtStopPrice ==
    Returned =>
      \A k \in Positions : \A i \in Horizon :
        LET sig == signals[k]
            out == trades[k].loc
        IN  (/\ IsSimulated(sig) /\ NoExitBefore(sig, i)
             /\ ~TargetOn(sig, i) /\ TouchOn(sig, i))
              => /\ out.exit_reason = StopLoss
                 /\ out.is_stop_loss /\ ~out.is_win /\ ~out.is_stop_loss_fail
                 /\ out.exit_day = i - forecast_idx
                 /\ out.exit_price = StopPriceOf(sig)
                 /\ out.max_return = [n |-> -target.stop_loss.n, d |-> target.stop_loss.d]
                 /\ \E j \in 1..Len(acc.returns) :
                      acc.returns[j] = [n |-> -target.stop_loss.n, d |-> target.stop_loss.d]

\* C7 witness: a day whose low is strictly below the stop price and whose
\* open is at it ends the trade StopLoss at the stop price
C7_Witness ==
    /\ Returned
    /\ \E k \in Positions : \E i \in Horizon :
         /\ IsSimulated(signals[k]) /\ NoExitBefore(signals[k], i)
         /\ ~TargetOn(signals[k], i) /\ TouchOn(signals[k], i)
         /\ BelowStop(DayBar(signals[k], i).low, signals[k])
         /\ trades[k].loc.exit_reason = StopLoss
         /\ trades[k].loc.exit_price # FromInt(DayBar(signals[k], i).low)

\* C8: a simulated trade with no exit condition on any day of
\* offset+1..offset+horizon ends TimeExpired with exit_day = horizon, at the
\* close of day offset+horizon, with the return of that close.
C8_TimeExpiredAtHorizon ==
    Returned =>
      \A k \in Positions :
        LET sig == signals[k]
            out == trades[k].loc
        IN  (IsSimulated(sig) /\ \A i \in Horizon : ~ExitOn(sig, i))
              => /\ ~trades[k].skipped
                 /\ out.exit_reason = TimeExpired
                 /\ out.exit_day = target.in_days
                 /\ out.exit_price = FromInt(DayBar(sig, LastDay).close)
                 /\ out.max_return = ReturnOf(DayBar(sig, LastDay).close, sig)

\* C9: with a horizon of one day, a simulated trade whose target is not
\* reached on day offset+1 and whose low of that day is at or below the stop
\* price is not left TimeExpired: it ends StopLoss when the open is at or
\* above the stop price and StopLossFailed when the open is below it.
C9_OneDayHorizon ==
    (Returned /\ target.in_days = 1) =>
      \A k \in Positions :
        LET sig == signals[k]
            out == trades[k].loc
            bar == DayBar(sig, FirstDay)
        IN  (/\ IsSimulated(sig) /\ ~TargetOn(sig, FirstDay)
             /\ AtOrBelowStop(bar.low, sig))
              => /\ ~trades[k].skipped
                 /\ out.exit_reason # TimeExpired
                 /\ AtOrAboveStop(bar.open, sig)
                      => out.exit_reason = StopLoss /\ out.is_stop_loss
                 /\ BelowStop(bar.open, sig)
                      => out.exit_reason = StopLossFailed /\ out.is_stop_loss_fail

\* C9 witness: a one-day trade whose only day opens exactly at the stop
\* price, goes below it and closes under the target ends StopLoss
C9_Witness ==
    /\ Returned /\ target.in_days = 1
    /\ \E k \in Positions :
         LET bar == DayBar(signals[k], FirstDay)
         IN  /\ IsSimulated(signals[k]) /\ ~TargetOn(signals[k], FirstDay)
             /\ AtOrBelowStop(bar.open, signals[k]) /\ AtOrAboveStop(bar.open, signals[k])
             /\ BelowStop(bar.low, signals[k])
             /\ trades[k].loc.exit_reason = StopLoss

\* the exit of a trade was decided on bar i of its series
ExitBarIs(out, sig, i) ==
    /\ HasDay(sig, i)
    /\ out.exit_reason = TargetReached => out.exit_price = FromInt(DayBar(sig, i).close)
    /\ out.exit_reason = TimeExpired => out.exit_price = FromInt(DayBar(sig, i).close)
    /\ out.exit_reason = StopLossFailed => out.exit_price = FromInt(DayBar(sig, i).open)
    /\ out.exit_reason = StopLoss => TouchOn(sig, i)

\* C10: every trade evaluate_signals counts exits after the decision day and
\* within the horizon: 1 <= exit_day <= horizon, the exit bar is bar
\* offset + exit_day, and the list of hold days holds such days only; for
\* every target a caller can pass.
C10_ExitWithinHorizon ==
    Returned =>
      /\ \A k \in Positions :
           ~trades[k].skipped =>
             /\ 1 <= trades[k].loc.exit_day
             /\ trades[k].loc.exit_day <= target.in_days
             /\ ExitBarIs(trades[k].loc, signals[k], forecast_idx + trades[k].loc.exit_day)
      /\ \A j \in 1..Len(acc.hold_days) :
           1 <= acc.hold_days[j] /\ acc.hold_days[j] <= target.in_days

\* the same for the targets whose in_days is at least 1
C10_ExitWithinPositiveHorizon == target.in_days >= 1 => C10_ExitWithinHorizon

\* C8 for the targets whose in_days is at least 1
C8_TimeExpiredAtPositiveHorizon == target.in_days >= 1 => C8_TimeExpiredAtHorizon

\* C11: evaluate_signals never fails, for any signals, offset and target: no
\* call ends in a panic on an index past the end of a series, and every
\* trade it simulated had the bars offset+1 and offset+horizon it read.
C11_NeverFails ==
    /\ pc # "panicked"
    /\ Returned =>
         \A k \in Positions :
           ~trades[k].skipped =>
             HasDay(signals[k], FirstDay) /\ HasDay(signals[k], LastDay)

\* C11 for the targets whose in_days is at least 1
C11_NeverFailsPositiveHorizon == target.in_days >= 1 => C11_NeverFails

\* the count fields of a result
Counts(r) ==
    <<r.total_trades, r.winning_trades, r.losing_trades, r.stop_loss_trades,
      r.stop_loss_fail_trades>>
\* the field-wise sum of the counts of two results
CountsSum(a, b) == [f \in 1..5 |-> Counts(a)[f] + Counts(b)[f]]

\* C12: merge adds the count fields: the counts of merge([a, b]) are the sums
\* of the counts of a and b; on the counts merge([a, b]) = merge([b, a]) and
\* merge([merge([a, b]), c]) = merge([a, merge([b, c])]) = merge([a, b, c]).
C12_MergeCounts ==
    /\ \A i, j \in 1..Len(results) :
         i < j =>
           /\ Counts(Merge(<<results[i], results[j]>>)) = CountsSum(results[i], results[j])
           /\ Counts(Merge(<<results[j], results[i]>>)) = CountsSum(results[i], results[j])
    /\ Len(results) = 3 =>
         /\ Counts(Merge(<<Merge(<<results[1], results[2]>>), results[3]>>))
              = Counts(Merge(results))
         /\ Counts(Merge(<<results[1], Merge(<<results[2], results[3]>>)>>))
              = Counts(Merge(results))
         /\ Counts(Merge(results))
              = CountsSum(results[1],
                          [total_trades |-> CountsSum(results[2], results[3])[1],
                           winning_trades |-> CountsSum(results[2], results[3])[2],
                           losing_trades |-> CountsSum(results[2], results[3])[3],
                           stop_loss_trades |-> CountsSum(results[2], results[3])[4],
                           stop_loss_fail_trades |-> CountsSum(results[2], results[3])[5]])

\* C12 witness: three collected results with trades, two of them with
\* different counts
C12_Witness ==
    /\ Len(results) = 3
    /\ \A k \in 1..3 : results[k].total_trades > 0
    /\ Counts(results[1]) # Counts(results[2])
    /\ results[3].winning_trades > 0 /\ results[2].stop_loss_fail_trades > 0

\* merge([a, a]) has twice the trades of a and the win rate and stop-loss
\* rate of a
DoublesUnderSelfMerge(a, aa) ==
    /\ aa.total_trades = 2 * a.total_trades
    /\ aa.win_rate = a.win_rate
    /\ aa.stop_loss_rate = a.stop_loss_rate

\* C13: for every result a that evaluate_signals returned or merge built,
\* merge([a, a]) has total_trades = 2 * a.total_trades and its win_rate and
\* stop_loss_rate are those of a.
C13_SelfMerge ==
    /\ \A k \in 1..Len(results) :
         DoublesUnderSelfMerge(results[k], Merge(<<results[k], results[k]>>))
    /\ pc = "merged" => DoublesUnderSelfMerge(merged, Merge(<<merged, merged>>))

\* C13 witness: a merge of results with trades, some won and some stopped
C13_Witness ==
    /\ pc = "merged" /\ merged.total_trades >= 2
    /\ merged.winning_trades > 0 /\ merged.stop_loss_trades > 0

\* the sum of the trade counts of a list of results
RECURSIVE TotalTrades(_)
TotalTrades(list) ==
    IF list = <<>> THEN 0 ELSE Head(list).total_trades + TotalTrades(Tail(list))

\* sum of avg_i * n_i over sum of n_i, 0 when there is no trade; avg(r) is
\* the average field of r
WeightedMean(list, avg(_)) ==
    IF TotalTrades(list) > 0
      THEN RDiv(RSum([k \in 1..Len(list) |->
                        RMul(avg(list[k]), FromInt(list[k].total_trades))]),
                FromInt(TotalTrades(list)))
      ELSE Zero

AvgReturnOf(r) == r.avg_return
AvgHoldDaysOf(r) == r.avg_hold_days

\* x is the largest max_return, y the smallest max_loss of the list
IsMaxReturnOf(x, list) ==
    /\ \E k \in 1..Len(list) : list[k].max_return = x
    /\ \A k \in 1..Len(list) : RLe(list[k].max_return, x)
IsMinLossOf(y, list) ==
    /\ \E k \in 1..Len(list) : list[k].max_loss = y
    /\ \A k \in 1..Len(list) : RLe(y, list[k].max_loss)

\* what C14 says of the merge m of a list
MergesAverages(m, list) ==
    /\ m.avg_return = WeightedMean(list, AvgReturnOf)
    /\ m.avg_hold_days = WeightedMean(list, AvgHoldDaysOf)
    /\ IsMaxReturnOf(m.max_return, list)
    /\ IsMinLossOf(m.max_loss, list)

\* C14: for a non-empty list, merge sets avg_return and avg_hold_days to the
\* mean of the inputs weighted by their trade counts (0 without trades),
\* max_return to the largest max_return and max_loss to the smallest
\* max_loss of the inputs.
C14_MergeAverages ==
    results # <<>> => MergesAverages(Merge(results), results)

\* C14 witness: two collected results with different trade counts, average
\* returns, largest returns and largest losses
C14_Witness ==
    /\ Len(results) >= 2
    /\ results[1].total_trades # results[2].total_trades
    /\ results[1].total_trades > 0 /\ results[2].total_trades > 0
    /\ results[1].avg_return # results[2].avg_return
    /\ results[1].max_return # results[2].max_return
    /\ results[1].max_loss # results[2].max_loss

\* the per-trade returns of a result that carries its trade details
ReturnsOf(r) == [j \in 1..Len(r.trade_details.list) |-> r.trade_details.list[j].return_pct]

\* the k-th collected result as returned with the trade details collected
Detailed(k) == IF results[k].trade_details.some THEN results[k] ELSE twins[k]

\* the per-trade returns of the first k collected results, in input order
RECURSIVE PerTradeReturns(_)
PerTradeReturns(k) ==
    IF k = 0 THEN <<>> ELSE PerTradeReturns(k - 1) \o ReturnsOf(Detailed(k))

\* C15: the return list from which merge recomputes the Sharpe ratio and the
\* max drawdown is the concatenation, in input order, of the per-trade
\* returns of all trades counted in the inputs; its length is the merged
\* total_trades, for every list of results of evaluate_signals.
C15_MergedReturnList ==
    results # <<>> =>
      /\ AllReturns(results) = PerTradeReturns(Len(results))
      /\ Len(AllReturns(results)) = Merge(results).total_trades
      /\ Merge(results).sharpe_ratio = SharpeRatio(PerTradeReturns(Len(results)))
      /\ Merge(results).max_drawdown = MaxDrawdown(PerTradeReturns(Len(results)))

\* C15 for the lists in which every result carries its trade details
C15_MergedReturnListOfDetailed ==
    (\A k \in 1..Len(results) : results[k].trade_details.some) => C15_MergedReturnList

\* the numeric fields of a result: everything but trade_details
Numeric(r) == [r EXCEPT !.trade_details = NoDetails]

\* C16, single offset: a call returns the same numeric fields with
\* collect_trade_details off and on
C16_SameNumbersPerOffset ==
    \A k \in 1..Len(results) :
      /\ Numeric(results[k]) = Numeric(twins[k])
      /\ results[k].trade_details.some # twins[k].trade_details.some

\* C16: for the same signals, target and offsets, the result obtained with
\* collect_trade_details off has the same value in every numeric field as the
\* one obtained with it on, for a single offset and after the per-offset
\* results are pooled with merge; only trade_details differs.
C16_SameNumbers ==
    /\ C16_SameNumbersPerOffset
    /\ results # <<>> => Numeric(Merge(results)) = Numeric(Merge(twins))

\* no signal of the last run_single_test can be traded: no entry price, or
\* no bar at the offset
NoTradeAtOffset ==
    \A k \in Positions :
      signals[k].buy_price <= 0 \/ Len(signals[k].data) <= forecast_idx

\* C17: run_backtest runs run_single_test once for each offset 1..=back_days,
\* in that order, and returns the sum of the per-offset success rates divided
\* by back_days: the mean of the rates; an offset without a trade adds 0.
C17_MeanOfOffsetScores ==
    /\ pc \in {"backtest", "backtested"} =>
         /\ backtest.offsets = [k \in 1..Len(backtest.offsets) |-> k]
         /\ Len(backtest.scores) = Len(backtest.offsets)
         /\ Len(backtest.offsets) <= backtest.back_days
         /\ backtest.total_score = RSum(backtest.scores)
    /\ (pc = "backtest" /\ backtest.scores # <<>> /\ NoTradeAtOffset) =>
         backtest.scores[Len(backtest.scores)] = Zero
    /\ pc = "backtested" =>
         /\ Len(backtest.offsets) = backtest.back_days
         /\ backtest.value =
              RDiv(RSum(backtest.scores), FromInt(backtest.back_days))

\* C17 witness: a run over two offsets with the rates 1/2 and 0 or 1, whose
\* value is their mean, a number of quarters
C17_Witness ==
    /\ pc = "backtested" /\ backtest.back_days = 2
    /\ backtest.scores[1] # backtest.scores[2]
    /\ backtest.value.d = 4

\* the score of the last run_single_test of the running run_backtest
LastScore == backtest.scores[Len(backtest.scores)]
Scoring == pc = "backtest" /\ backtest.scores # <<>>

\* C18: the per-offset score run_backtest averages (target.run on the signals)
\* is the win_rate of the result run_detailed_test (evaluate_signals) returns
\* for the same signals, target and offset.
C18_ScoreIsDetailedWinRate ==
    Scoring =>
      (~EvaluateSignals(signals, target, forecast_idx, collect_trade_details).panicked
         => LastScore = EvaluateSignals(signals, target, forecast_idx,
                                        collect_trade_details).result.win_rate)

\* the signals of the offset being scored that have an entry price and the bars
\* their target reads
HasBars(t, sig, f) ==
    IF t.kind = "ReturnTarget" THEN f >= t.in_days /\ Len(sig.data) > f
    ELSE Len(sig.data) > f + t.in_days
ValidSignals == {k \in Positions : signals[k].buy_price > 0 /\ HasBars(target, signals[k], forecast_idx)}
GuardHolds(sig) ==
    \A i \in (forecast_idx + 1)..(forecast_idx + target.in_days) :
        ~RLe(ReturnOf(At(sig.data, i).low, sig), RNeg(target.stop_loss))
Succeeds(sig) ==
    IF target.kind = "ReturnTarget" THEN ReturnTrade(target, sig, forecast_idx).is_win
    ELSE GuardHolds(sig)
Successes == {k \in ValidSignals : Succeeds(signals[k])}
RateOverValid ==
    IF ValidSignals = {} THEN Zero
    ELSE Rat(Cardinality(Successes), Cardinality(ValidSignals))

\* C19: the rate Target::run returns for an offset is the number of successful
\* signals divided by the number of valid signals (entry price above 0 and
\* enough bars), and 0 when no signal is valid, for every Target implementation.
C19_RateOverValidSignals == Scoring => LastScore = RateOverValid

\* the same for ReturnTarget alone, whose run counts only the signals it keeps
C19_RateOverValidSignalsOfReturnTarget ==
    (Scoring /\ target.kind = "ReturnTarget") => LastScore = RateOverValid

\* every rate and average of a result is a number, its Sharpe ratio and max
\* drawdown are finite, and its profit factor is a number or +Infinity
RatiosDefined(r) ==
    /\ \A x \in {r.win_rate, r.stop_loss_rate, r.stop_loss_fail_rate, r.avg_return,
                  r.avg_hold_days, r.max_return, r.max_loss, r.max_drawdown,
                  r.sharpe_ratio.square} : x.d # 0
    /\ ~IsNaN(r.profit_factor)
    /\ r.total_trades = 0 =>
          /\ r.win_rate = Zero /\ r.stop_loss_rate = Zero /\ r.stop_loss_fail_rate = Zero
          /\ r.avg_return = Zero /\ r.avg_hold_days = Zero

\* the results in the state: the one returned, the ones collected, the merged one
ResultRatiosDefined ==
    /\ RatiosDefined(result)
    /\ RatiosDefined(merged)
    /\ \A k \in 1..Len(results) : RatiosDefined(results[k])

\* C20: no ratio of the backtest and aggregation path is not-a-number: the
\* rates, averages, Sharpe ratio, max drawdown and profit factor of every
\* result, every per-offset score, and the mean run_backtest returns, also
\* when the denominator is zero (no trades, back_days = 0, ...).
C20_NoRatioIsNaN ==
    /\ ResultRatiosDefined
    /\ \A k \in 1..Len(backtest.scores) : backtest.scores[k].d # 0
    /\ backtest.total_score.d # 0
    /\ pc = "backtested" => backtest.value.d # 0

\* the same without the division by back_days: it fails only there
C20_NoRatioIsNaNBeforeMean ==
    /\ ResultRatiosDefined
    /\ \A k \in 1..Len(backtest.scores) : backtest.scores[k].d # 0
    /\ backtest.total_score.d # 0
    /\ (pc = "backtested" /\ backtest.back_days > 0) => backtest.value.d # 0

\* ------------------------------------------------------- Scorecard::run
\* vec![vec![vec![x; signals]; selectors]; targets]
Matrix(x) ==
    [t \in 1..Len(ScorecardTargets) |->
        [s \in 1..Len(ScorecardSelectors) |-> [sig \in 1..Len(ScorecardSignals) |-> x]]]

\* the combinations vector: (t, s, sig) with t outermost and sig innermost
Combinations ==
    [k \in 1..(Len(ScorecardTargets) * Len(ScorecardSelectors) * Len(ScorecardSignals)) |->
        [t |-> (k - 1) \div (Len(ScorecardSelectors) * Len(ScorecardSignals)),
         s |-> ((k - 1) \div Len(ScorecardSignals)) % Len(ScorecardSelectors),
         sig |-> (k - 1) % Len(ScorecardSignals)]]

\* mutant: the tasks read the combination from a place they share, so a task
\* evaluates the combination that was started last
Evaluated_LastStarted(own, current) == current

\* the combination a task evaluates: the element of combinations its closure
\* was handed, whatever the other tasks are doing
Evaluated(own, current) == own

\* mutant: the map hands out its entries in another order on every second run
IterationOrder_PerRun(order, run) ==
    IF run % 2 = 0 THEN [k \in 1..Len(order) |-> order[Len(order) + 1 - k]] ELSE order

\* self.stock_data.iter(): the map is not modified after load_data, so every
\* iteration over it, in every run, yields the same order
IterationOrder(order, run) == order

\* the tuple a task returns for combination c: (t, s, sig, score)
TaskResult(sc, c) ==
    [t |-> c.t, s |-> c.s, sig |-> c.sig,
     score |-> RunBacktestValue(IterationOrder(sc.order, sc.runs),
                                ScorecardSelectors[c.s + 1], ScorecardSignals[c.sig + 1],
                                ScorecardTargets[c.t + 1], sc.back_days)]

\* results[t][s][sig] = score
Assigned(matrix, item) ==
    [matrix EXCEPT ![item.t + 1][item.s + 1][item.sig + 1] = item.score]

\* the tasks of the parallel map by their state
TasksIn(sc, state) == {i \in DOMAIN sc.status : sc.status[i] = state}

\* Scorecard::new(back_days, selectors, signals, targets): the engine loads
\* the panel into its map
NewScorecard ==
    /\ scorecard.phase = "none"
    /\ \E back_days \in ScorecardBackDays, order \in PanelOrders :
          scorecard' = [scorecard EXCEPT !.phase = "ready", !.back_days = back_days,
                                         !.order = order]
    /\ UNCHANGED <<engineVars, providerVars, loadVars>>

\* run is called: the matrix of zeros and the combinations; the matrix of
\* the call before is kept aside for comparison, and the tuple its caller
\* got from find_best_combination is forgotten
ScorecardRun ==
    /\ scorecard.phase \in {"ready", "returned", "best"}
    /\ scorecard.runs < MaxRuns
    /\ scorecard' =
          [scorecard EXCEPT !.phase = "running", !.runs = @ + 1,
                            !.combinations = Combinations,
                            !.status = [i \in DOMAIN Combinations |-> "pending"],
                            !.scores = [i \in DOMAIN Combinations |-> InitBest],
                            !.current = 0, !.next = 1,
                            !.results = Matrix(Zero), !.writes = Matrix(0),
                            !.overtaken = FALSE, !.best = InitBest,
                            !.first = IF scorecard.runs = 1 THEN scorecard.results ELSE @,
                            !.first_overtaken =
                                IF scorecard.runs = 1 THEN scorecard.overtaken ELSE @]
    /\ UNCHANGED <<engineVars, providerVars, loadVars>>

\* a worker thread takes a combination that no thread has taken
StartCombination ==
    /\ scorecard.phase = "running"
    /\ Cardinality(TasksIn(scorecard, "running")) < MaxThreads
    /\ \E i \in TasksIn(scorecard, "pending") :
          scorecard' = [scorecard EXCEPT !.status[i] = "running", !.current = i]
    /\ UNCHANGED <<engineVars, providerVars, loadVars>>

\* a task returns its tuple; the indexed collect puts it at the position of
\* its combination
FinishCombination ==
    /\ scorecard.phase = "running"
    /\ \E i \in TasksIn(scorecard, "running") :
          scorecard' =
             [scorecard EXCEPT
                !.status[i] = "done",
                !.scores[i] =
                    TaskResult(scorecard,
                               scorecard.combinations[Evaluated(i, scorecard.current)]),
                !.overtaken = @ \/ \E j \in 1..(i - 1) : scorecard.status[j] # "done"]
    /\ UNCHANGED <<engineVars, providerVars, loadVars>>

\* one pass of the loop that fills the matrix from the collected scores
FillCell ==
    /\ scorecard.phase = "running"
    /\ TasksIn(scorecard, "done") = DOMAIN scorecard.status
    /\ scorecard.next <= Len(scorecard.scores)
    /\ scorecard' =
          [scorecard EXCEPT
             !.results = Assigned(@, scorecard.scores[scorecard.next]),
             !.writes[scorecard.scores[scorecard.next].t + 1]
                     [scorecard.scores[scorecard.next].s + 1]
                     [scorecard.scores[scorecard.next].sig + 1] = @ + 1,
             !.next = @ + 1]
    /\ UNCHANGED <<engineVars, providerVars, loadVars>>

\* run returns the matrix
ReturnResults ==
    /\ scorecard.phase = "running"
    /\ TasksIn(scorecard, "done") = DOMAIN scorecard.status
    /\ scorecard.next > Len(scorecard.scores)
    /\ scorecard' = [scorecard EXCEPT !.phase = "returned"]
    /\ UNCHANGED <<engineVars, providerVars, loadVars>>

\* --------------------------------------------------- find_best_combination
\* the nested loops of find_best_combination from cell (t, s, sig) on, the
\* indices counted from 1 here and from 0 in the tuple
RECURSIVE BestFrom(_, _, _, _, _)
BestFrom(matrix, t, s, sig, best) ==
    IF t > Len(matrix) THEN best
    ELSE IF s > Len(matrix[t]) THEN BestFrom(matrix, t + 1, 1, 1, best)
    ELSE IF sig > Len(matrix[t][s]) THEN BestFrom(matrix, t, s + 1, 1, best)
    ELSE BestFrom(matrix, t, s, sig + 1,
                  IF RLt(best.score, matrix[t][s][sig])
                    THEN [t |-> t - 1, s |-> s - 1, sig |-> sig - 1,
                          score |-> matrix[t][s][sig]]
                    ELSE best)

\* find_best_combination(results)
FindBest(matrix) == BestFrom(matrix, 1, 1, 1, InitBest)

\* the caller hands the matrix of the run to find_best_combination
FindBestCombination ==
    /\ scorecard.phase = "returned"
    /\ scorecard' = [scorecard EXCEPT !.phase = "best", !.best = FindBest(scorecard.results)]
    /\ UNCHANGED <<engineVars, providerVars, loadVars>>

NextScorecard ==
    \/ NewScorecard
    \/ ScorecardRun
    \/ StartCombination
    \/ FinishCombination
    \/ FillCell
    \/ ReturnResults
    \/ FindBestCombination

SpecScorecard == Init /\ [][NextScorecard]_vars

\* the locals of the scan of signal sig over its horizon, and the exit at the
\* close of the last day booked on them without any re-check
ScannedLocals(sig) ==
    Scan(InitLocals, sig.data, forecast_idx + 1, forecast_idx, sig.buy_price,
         StopLossPrice(sig.buy_price, target), target)
ExpiredAtClose(loc, sig) ==
    [loc EXCEPT !.max_return = ReturnOf(DayBar(sig, LastDay).close, sig),
                !.exit_day = target.in_days,
                !.exit_price = FromInt(DayBar(sig, LastDay).close),
                !.exit_reason = TimeExpired]

\* C27: with a horizon of one day, whenever the scan of day offset+1 ends
\* without an exit the low of that day is above the stop price, and the trade
\* is exactly the one the simulation without the re-check books: TimeExpired
\* at the close of that day, no stop flag set.
C27_RecheckChangesNothing ==
    (Returned /\ target.in_days = 1) =>
      \A k \in Positions :
        LET sig == signals[k]
        IN  (/\ IsSimulated(sig) /\ ~GapOn(sig, FirstDay)
             /\ ScannedLocals(sig).exit_day = 0)
              => /\ ~AtOrBelowStop(DayBar(sig, FirstDay).low, sig)
                 /\ ~trades[k].skipped
                 /\ trades[k].loc = ExpiredAtClose(ScannedLocals(sig), sig)
                 /\ ~trades[k].loc.is_stop_loss /\ ~trades[k].loc.is_stop_loss_fail

\* C27 witness: a one-day trade whose scan ends without an exit and that is
\* returned TimeExpired
C27_Witness ==
    /\ Returned /\ target.in_days = 1
    /\ \E k \in Positions :
         /\ IsSimulated(signals[k]) /\ ~GapOn(signals[k], FirstDay)
         /\ ScannedLocals(signals[k]).exit_day = 0
         /\ trades[k].loc.exit_reason = TimeExpired

\* the number of counted (not skipped) trades among the first k signals
CountedUpTo(k) == Cardinality({i \in 1..k : ~trades[i].skipped})

\* C28: with collect_trade_details set, a returned result carries one
\* TradeDetail per counted trade, in signal order: the list is as long as
\* total_trades = winning_trades + losing_trades, the j-th record belongs to
\* the j-th counted signal, its return_pct is (exit_price - entry_price) /
\* entry_price and its hold_days is the exit day, for every exit reason.
C28_OneDetailPerTrade ==
    (Returned /\ collect_trade_details) =>
      /\ result.trade_details.some
      /\ Len(result.trade_details.list) = result.total_trades
      /\ result.total_trades = result.winning_trades + result.losing_trades
      /\ result.total_trades = CountedUpTo(Len(signals))
      /\ \A k \in Positions :
           ~trades[k].skipped =>
             LET d == result.trade_details.list[CountedUpTo(k)]
             IN  /\ d.symbol = signals[k].symbol
                 /\ d.entry_price = FromInt(signals[k].buy_price)
                 /\ d.exit_reason = trades[k].loc.exit_reason
                 /\ d.exit_reason \in ExitReason
                 /\ d.hold_days = trades[k].loc.exit_day
                 /\ d.exit_price = trades[k].loc.exit_price
                 /\ d.return_pct = RDiv(RSub(d.exit_price, d.entry_price), d.entry_price)

\* C28 witness: a returned call with details whose two trades ended with
\* different reasons, one of them a clean stop
C28_Witness ==
    /\ Returned /\ collect_trade_details
    /\ Len(result.trade_details.list) = 2
    /\ result.trade_details.list[1].exit_reason = StopLoss
    /\ result.trade_details.list[2].exit_reason # StopLoss

\* the count, rate, average and max/min fields of a result
PooledFields(r) ==
    <<r.total_trades, r.winning_trades, r.losing_trades, r.stop_loss_trades,
      r.stop_loss_fail_trades, r.win_rate, r.stop_loss_rate, r.stop_loss_fail_rate,
      r.avg_return, r.avg_hold_days, r.max_return, r.max_loss>>

\* C26: the result a driver returns for the offsets 1..=back_days equals
\* BacktestResult::merge of the per-offset run_detailed_test results in every
\* count, rate, average and max/min field, also when no offset had a trade.
C26_PooledEqualsMerge ==
    pc = "pooled" => PooledFields(detailed.value) = PooledFields(Merge(detailed.per_offset))

\* the same for the export driver when some offset produced a trade
C26_ExportEqualsMergeWithTrades ==
    (pc = "pooled" /\ detailed.driver = "export" /\ detailed.value.total_trades > 0)
      => PooledFields(detailed.value) = PooledFields(Merge(detailed.per_offset))

\* C24: under every interleaving of get_daily_bars calls on one provider, a
\* symbol is fetched from the data source at most once and inserted into the
\* cache at most once.
C24_FetchedAtMostOnce ==
    \A sym \in AllSymbols : fetches[sym] <= 1 /\ inserts[sym] <= 1

\* what does hold: an insert follows a fetch of the same symbol by the same
\* call, and each call fetches at most once
C24_InsertsFollowFetches ==
    /\ \A sym \in AllSymbols : inserts[sym] <= fetches[sym]
    /\ fetches[<<6, 0, 0, 0, 0, 0>>] + fetches[<<0, 0, 0, 0, 0, 1>>]
         + fetches[<<6, 0, 0, 0, 0, 1>>] <= calls

\* the positions inside the two locked blocks of get_daily_bars
InLockedBlock(th) == threads[th].pc \in {"check", "insert"}

\* C25: a thread holds the cache lock exactly while it is inside one of the
\* two blocks that read or insert a cache entry: never while it fetches, never
\* after its call returned; so a thread waiting for the lock waits only for a
\* thread that is reading or inserting, not for one that is fetching.
C25_LockOnlyAroundCache ==
    /\ lock \in {0} \cup Threads
    /\ \A th \in Threads :
         /\ lock = th <=> InLockedBlock(th)
         /\ threads[th].pc \in {"fetch", "lock_check", "lock_insert"} => lock # th
         /\ threads[th].pc \in {"done", "idle"} => lock # th
         /\ (threads[th].pc \in {"lock_check", "lock_insert"} /\ lock # 0)
              => InLockedBlock(lock) /\ threads[lock].pc # "fetch"

\* C25 witness: a lookup of one symbol began, missed, fetched, inserted and
\* returned Some while another thread stayed in the middle of fetching a
\* different symbol
C25_Witness ==
    \E a, b \in Threads :
        /\ a # b
        /\ threads[a].pc = "fetch"
        /\ threads[b].pc = "done" /\ threads[b].ret.some
        /\ a \in threads[b].during
        /\ ~threads[b].cached_at_call
        /\ threads[a].symbol # threads[b].symbol
        /\ lock = 0

\* what holds of the cache and of the calls in every state
CacheHoldsSourceData ==
    /\ \A sym \in DOMAIN cache : sym \in DOMAIN DataSource /\ cache[sym] = DataSource[sym]
    /\ \A th \in Threads :
         /\ (threads[th].pc = "done" /\ threads[th].ret.some)
              => /\ threads[th].symbol \in DOMAIN cache
                 /\ threads[th].ret.daily = cache[threads[th].symbol].daily
         /\ (threads[th].pc = "done" /\ ~threads[th].ret.some)
              => /\ threads[th].symbol \notin DOMAIN cache
                 /\ fetches[threads[th].symbol] >= 1
                 /\ inserts[threads[th].symbol] = 0
         /\ threads[th].cached_at_call
              => /\ threads[th].pc \in {"lock_check", "check", "done"}
                 /\ threads[th].pc = "done"
                      => threads[th].ret = SomeBars(cache[threads[th].symbol].daily)

\* what holds of every step: no entry is removed or changed, and a fetch that
\* fails ends the call with None, the cache as it was, the fetch counted
CacheOnlyGrows ==
    /\ \A sym \in DOMAIN cache : sym \in DOMAIN cache' /\ cache'[sym] = cache[sym]
    /\ \A th \in Threads :
         (threads[th].pc = "fetch" /\ threads'[th].pc = "done")
           => /\ ~threads'[th].ret.some
              /\ cache' = cache
              /\ fetches'[threads[th].symbol] = fetches[threads[th].symbol] + 1

\* C29: a lookup whose fetch fails returns None and leaves the cache as it
\* was (the failure is not cached; the next call fetches again); once a lookup
\* returned Some for a symbol the cache holds it from then on, a call that
\* begins afterwards returns the same bars without fetching, and no cache
\* entry is ever removed or replaced by different data.
C29_CacheKeepsEntries == [](CacheHoldsSourceData) /\ [][CacheOnlyGrows]_vars

\* C29 witness: a symbol the source does not find was looked up twice and
\* fetched twice, and a call for a cached symbol returned its bars while the
\* cache holds two symbols
C29_Witness ==
    /\ fetches[<<6, 0, 0, 0, 0, 1>>] = 2
    /\ <<6, 0, 0, 0, 0, 1>> \notin DOMAIN cache
    /\ \E th \in Threads :
         /\ threads[th].pc = "done" /\ threads[th].cached_at_call
         /\ threads[th].ret.some /\ threads[th].symbol \in DOMAIN cache

\* the symbols load_data is to retain, stated from the listing and the data
\* source alone: the first three digits are none of 688, 689, 300, 301, 302,
\* the source has the symbol, and its series has at least 120 bars
Retained ==
    {sym \in AllSymbols :
        /\ <<sym[1], sym[2], sym[3]>> \notin
             {<<6, 8, 8>>, <<6, 8, 9>>, <<3, 0, 0>>, <<3, 0, 1>>, <<3, 0, 2>>}
        /\ sym \in DOMAIN DataSource
        /\ Len(DataSource[sym].daily) >= 120}

\* C30: when load_data returns, stock_data maps exactly the retained symbols
\* to their series, on the parallel path (cache_enabled) and on the
\* sequential path alike, in whatever order the parallel tasks end; before
\* that, each parallel item carries the symbol of its own position and its
\* series, and the sequential path has inserted only retained symbols.
C30_LoadRetainsFiltered ==
    /\ load.phase = "loaded" =>
         /\ DOMAIN stock_data = Retained
         /\ \A sym \in Retained : stock_data[sym] = DataSource[sym].daily
    /\ load.phase = "loading" =>
         /\ \A i \in 1..Len(load.slots) :
              load.slots[i].state = "some" =>
                /\ load.slots[i].symbol = load.filtered[i]
                /\ load.filtered[i] \in Retained
                /\ load.slots[i].bars = DataSource[load.filtered[i]].daily
         /\ \A i \in 1..Len(load.slots) :
              load.slots[i].state = "none" => load.filtered[i] \notin Retained
         /\ load.cache_enabled => stock_data = <<>>
         /\ \A sym \in DOMAIN stock_data :
              sym \in Retained /\ stock_data[sym] = DataSource[sym].daily

\* C30 witness: the parallel path returned with two symbols retained after
\* its tasks ended in an order other than the order of the list
C30_Witness ==
    /\ load.phase = "loaded" /\ load.cache_enabled
    /\ Cardinality(DOMAIN stock_data) = 2
    /\ load.finished[1] > load.finished[2]
    /\ load.finished[3] > load.finished[4]

\* ---------------------------------------------------------------- C21
\* the cells of the matrix, indices counted from 1
Cells ==
    {<<t, s, sig>> : t \in 1..Len(ScorecardTargets), s \in 1..Len(ScorecardSelectors),
                     sig \in 1..Len(ScorecardSignals)}

\* the matrix has the shape targets x selectors x signals
HasShape(matrix) ==
    /\ Len(matrix) = Len(ScorecardTargets)
    /\ \A t \in DOMAIN matrix :
          /\ Len(matrix[t]) = Len(ScorecardSelectors)
          /\ \A s \in DOMAIN matrix[t] : Len(matrix[t][s]) = Len(ScorecardSignals)

\* the run has returned its matrix
RunReturned == scorecard.phase \in {"returned", "best"}

\* two cells of the matrix hold different scores
TwoScores(matrix) ==
    \E c, d \in Cells : matrix[c[1]][c[2]][c[3]] # matrix[d[1]][d[2]][d[3]]

\* C21: when Scorecard.run has returned, every combination has been
\* evaluated, the matrix has the shape targets x selectors x signals, and
\* each cell [t][s][sig] has been written exactly once and holds the score
\* run_backtest gives for selectors[s], signals[sig], targets[t] and
\* back_days, so no cell holds the score of another combination. Before
\* that, the tuple every finished task has returned carries the coordinates
\* of its own combination.
C21_RunFillsEveryCell ==
    /\ \A i \in TasksIn(scorecard, "done") :
          <<scorecard.scores[i].t, scorecard.scores[i].s, scorecard.scores[i].sig>> =
              <<Combinations[i].t, Combinations[i].s, Combinations[i].sig>>
    /\ RunReturned =>
        /\ TasksIn(scorecard, "done") = DOMAIN Combinations
        /\ HasShape(scorecard.results)
        /\ \A c \in Cells :
              /\ scorecard.writes[c[1]][c[2]][c[3]] = 1
              /\ scorecard.results[c[1]][c[2]][c[3]] =
                    RunBacktestValue(scorecard.order, ScorecardSelectors[c[2]],
                                     ScorecardSignals[c[3]], ScorecardTargets[c[1]],
                                     scorecard.back_days)

\* C21 witness: a run over at least one offset has returned a matrix with
\* different scores in it, and one of its tasks finished before a task of an
\* earlier combination had
C21_Witness ==
    /\ scorecard.phase = "returned"
    /\ scorecard.back_days >= 1
    /\ scorecard.overtaken
    /\ TwoScores(scorecard.results)

\* ---------------------------------------------------------------- C22
\* C22: the matrix of a later run of Scorecard.run on the same Scorecard is
\* the matrix of its first run, whatever the orders in which the tasks of
\* the two runs started and finished.
C22_RunsAgree ==
    (RunReturned /\ scorecard.runs >= 2) => scorecard.results = scorecard.first

\* C22 witness: the second run has returned after its tasks finished in
\* another kind of order than those of the first (one in the order of the
\* combinations, the other not), the matrix holding different scores
C22_Witness ==
    /\ scorecard.phase = "returned"
    /\ scorecard.runs = 2
    /\ scorecard.back_days >= 1
    /\ scorecard.overtaken # scorecard.first_overtaken
    /\ TwoScores(scorecard.results)

\* ---------------------------------------------------------------- C23
\* cell c comes before cell d in the order target, selector, signal
CellBefore(c, d) ==
    \/ c[1] < d[1]
    \/ c[1] = d[1] /\ c[2] < d[2]
    \/ c[1] = d[1] /\ c[2] = d[2] /\ c[3] < d[3]

\* best names the first cell of the matrix that holds its maximum, with the
\* score of that cell
FirstMaximum(matrix, best) ==
    /\ <<best.t + 1, best.s + 1, best.sig + 1>> \in Cells
    /\ best.score = matrix[best.t + 1][best.s + 1][best.sig + 1]
    /\ \A c \in Cells :
          /\ ~RLt(best.score, matrix[c[1]][c[2]][c[3]])
          /\ CellBefore(c, <<best.t + 1, best.s + 1, best.sig + 1>>)
                => RLt(matrix[c[1]][c[2]][c[3]], best.score)

\* C23: find_best_combination returns the coordinates and the score of the
\* first cell, in the order target, selector, signal, that holds the maximum
\* of the matrix, and the returned score is the matrix value at the returned
\* coordinates.
C23_BestIsFirstMaximum ==
    scorecard.phase = "best" => FirstMaximum(scorecard.results, scorecard.best)

\* the same for the matrices of runs over at least one offset, whose cells
\* are all numbers
C23_BestIsFirstMaximumOfNumbers ==
    (scorecard.phase = "best" /\ scorecard.back_days >= 1)
        => FirstMaximum(scorecard.results, scorecard.best)

\* find_best_combination has replaced its best by a later cell that is not
\* the first one, and a cell after the returned one holds the same score
C23_LaterCellWins ==
    /\ scorecard.phase = "best"
    /\ scorecard.back_days >= 1
    /\ <<scorecard.best.t, scorecard.best.s, scorecard.best.sig>> # <<0, 0, 0>>
    /\ \E c \in Cells :
          /\ CellBefore(<<scorecard.best.t + 1, scorecard.best.s + 1,
                          scorecard.best.sig + 1>>, c)
          /\ scorecard.results[c[1]][c[2]][c[3]] = scorecard.best.score

====
